---- MODULE Spec2Model ----
(***************************************************************************)
(* devwrap: the file-backed lease store, its lock, the port allocator and  *)
(* the reconciliation of tracked apps into the Caddy admin configuration.  *)
(* Every CLI invocation is a process (its pid is its index); the state     *)
(* file, the lock file and the admin configuration are shared.             *)
(***************************************************************************)
EXTENDS Integers, Sequences, FiniteSets, TLC

(* ------------------------------ bounds -------------------------------- *)

\* Number of concurrently existing CLI invocations (pids 1..NumProcs).
NumProcs == 2

\* Width of the modelled app-port range (the program scans 11000..19999).
PortSpan == 2

\* How many operations of one behaviour meet a failing admin call or a failing
\* save.
MaxFaults == 1

\* Longest live route list handed to the route merge on its own.
MaxRoutes == 3

(* ------------------------- program constants -------------------------- *)

PortMin == 11000

PortMax == PortMin + PortSpan - 1

DefaultHTTPPort == 80

DefaultHTTPSPort == 443

CurrentVersion == 1

devwrapInternalTLSPolicyID == "devwrap-internal-policy"

RoutePrefix == "devwrap-"

\* The run invocations (`devwrap --name n -- cmd`), each its own pid.
Procs == 1..NumProcs

\* The invocation of a command that holds no lease (rm, proxy status, ls).
Cli == NumProcs + 1

AllProcs == Procs \cup {Cli}

\* App names, listed in the order sort.Strings gives them.
NameOrder == <<"api", "web">>

Names == {NameOrder[i] : i \in 1..Len(NameOrder)}

\* Server names of the admin configuration, in sort.Strings order.
ServerOrder == <<"devwrap-http", "devwrap-https", "srv0", "srv1">>

\* Certificate subjects, in sort.Strings order.
SubjectOrder == << <<"*", "localhost">>, <<"*", "test">>, <<"localhost">> >>

RankIn(order, x) == CHOOSE i \in 1..Len(order) : order[i] = x

SetMin(S) == CHOOSE x \in S : \A y \in S : x <= y

\* sort.Strings over a set of strings drawn from the ordered universe `order`.
RECURSIVE SortBy(_, _)
SortBy(order, S) ==
  IF S = {} THEN <<>>
  ELSE LET first == CHOOSE x \in S : \A y \in S : RankIn(order, x) <= RankIn(order, y)
       IN <<first>> \o SortBy(order, S \ {first})

EmptyApps == [n \in {} |-> 0]

(* ------------------------------ state --------------------------------- *)

VARIABLES
  stateFile,  \* state.json: [kind |-> "missing"] or [kind |-> "doc", doc |-> daemonState]
              \* (kinds "garbled", "mistyped", "unreadable": see loadLocalState);
              \* field tmp, where present, is state.json.tmp
  lock,       \* state.lock: 0 when free, else the pid holding the flock
  servers,    \* admin /config/apps/http/servers: server name -> [listen, tls, routes]
  policies,   \* admin /config/apps/tls/automation/policies: [found, list]
  pc,         \* position of each invocation
  arg,        \* the app name the invocation was given
  base,       \* the daemonState the invocation loaded under the lock
  st,         \* the invocation's in-memory daemonState (local `state`)
  lease,      \* the Lease a run invocation got from acquireLease
  faults      \* operations so far that met a failing admin call or save

vars == <<stateFile, lock, servers, policies, pc, arg, base, st, lease, faults>>

(* --------------------------- state store ------------------------------ *)

DefaultState ==
  [version |-> CurrentVersion, caddySource |-> "unmanaged", root |-> FALSE,
   httpPort |-> DefaultHTTPPort, httpsPort |-> DefaultHTTPSPort, apps |-> EmptyApps]

\* loadLocalState: defaults when the file is missing or is no JSON text
\* (json.Unmarshal checks the syntax before it stores anything); a JSON text
\* with a value of the wrong type in field `bad` fills every other field, and
\* the error return of line 34 skips the folding of the legacy source names.
loadLocalState(f) ==
  IF f.kind = "doc"
  THEN LET d == f.doc
       IN [d EXCEPT !.caddySource =
             IF d.caddySource \in {"", "existing"} THEN "unmanaged"
             ELSE IF d.caddySource = "spawned" THEN "managed"
             ELSE d.caddySource]
  ELSE IF f.kind = "mistyped"
  THEN [k \in DOMAIN DefaultState |-> IF k = f.bad THEN DefaultState[k] ELSE f.doc[k]]
  ELSE DefaultState

\* os.ReadFile fails with an error other than "not exist" (lines 27-31).
loadFails(f) == f.kind = "unreadable"

\* saveLocalState: the temporary file is written and renamed over state.json;
\* when either step fails state.json keeps its content. The other files of
\* the directory (fields of f besides kind, doc and bad) stay as they are.
saveLocalState(f, state, ok) ==
  IF ok
  THEN [k \in (DOMAIN f \ {"bad"}) \cup {"kind", "doc"} |->
          IF k = "kind" THEN "doc" ELSE IF k = "doc" THEN state ELSE f[k]]
  ELSE f

\* os.Geteuid() == 0 for the invocation p (it was started under sudo).
RunsAsRoot(p) == "isRoot" \in DOMAIN arg[p] /\ arg[p].isRoot

\* kill(pid, 0) as `self` issues it: ESRCH for a pid that does not run, EPERM
\* for a running process of root when the caller is not root, else no error.
KillProbe(self, pid) ==
  IF ~(pid \in AllProcs /\ pc[pid] # "idle") THEN "ESRCH"
  ELSE IF RunsAsRoot(pid) /\ ~RunsAsRoot(self) THEN "EPERM"
  ELSE ""

\* processAlive(pid) as the invocation `self` evaluates it: false for pid <= 0,
\* else whether kill(pid, 0) returned no error (the caller's own pid runs).
processAlive(self, pid) ==
  IF pid <= 0 THEN FALSE
  ELSE pid = self \/ KillProbe(self, pid) = ""

\* The eviction loop of requestLeaseDirect / localStatusFromFiles / startDaemon.
EvictDead(self, apps) ==
  LET keep == {n \in DOMAIN apps : processAlive(self, apps[n].pid)}
  IN [n \in keep |-> apps[n]]

\* Faulty variant: the entry is not deleted.
DeleteAppKeeping(apps, name) == apps

\* delete(state.Apps, name)
DeleteApp(apps, name) == [n \in DOMAIN apps \ {name} |-> apps[n]]

PutApp(apps, name, app) ==
  [n \in DOMAIN apps \cup {name} |-> IF n = name THEN app ELSE apps[n]]

(* --------------------------- port allocator --------------------------- *)

\* Faulty variant: the ports of the tracked apps are not skipped.
allocatePortIgnoringUsed(apps, busy) ==
  LET free == {p \in PortMin..PortMax : p \notin busy}
  IN IF free = {} THEN [err |-> TRUE, port |-> 0]
     ELSE [err |-> FALSE, port |-> SetMin(free)]

\* Faulty variant: the loopback bind probe is not consulted.
allocatePortIgnoringProbe(apps, busy) ==
  LET used == {apps[n].port : n \in DOMAIN apps}
      free == {p \in PortMin..PortMax : p \notin used}
  IN IF free = {} THEN [err |-> TRUE, port |-> 0]
     ELSE [err |-> FALSE, port |-> SetMin(free)]

\* allocatePortFromApps: lowest port of the range that no tracked app records
\* and that the loopback bind probe accepts (busy: ports the probe refuses).
allocatePortFromApps(apps, busy) ==
  LET used == {apps[n].port : n \in DOMAIN apps}
      free == {p \in PortMin..PortMax : p \notin used /\ p \notin busy}
  IN IF free = {} THEN [err |-> TRUE, port |-> 0]
     ELSE [err |-> FALSE, port |-> SetMin(free)]

DefaultHost(name) == <<name, "localhost">>

(* ------------------------- route reconciler --------------------------- *)

\* A route of a server's list: a JSON object with an "@id" (<<prefix, rest>>,
\* <<"", "">> when it has none), a host matcher and an upstream dial port, or a
\* JSON value that is no object (kind "raw").
Route(id, host, dial) == [kind |-> "map", id |-> id, host |-> host, dial |-> dial]

OwnedRouteID(name) == <<RoutePrefix, name>>

\* strings.HasPrefix(id, "devwrap-")
HasOwnedMarker(route) == route.kind = "map" /\ route.id[1] = RoutePrefix

DevwrapRoute(app) == Route(OwnedRouteID(app.name), app.host, app.port)

\* Faulty variant: the names are not sorted ascending.
makeDevwrapRoutesUnsorted(apps) ==
  LET names == SortBy(NameOrder, DOMAIN apps)
  IN [i \in 1..Len(names) |-> DevwrapRoute(apps[names[Len(names) + 1 - i]])]

\* makeDevwrapRoutes: one route per app, in ascending name order.
makeDevwrapRoutes(apps) ==
  LET names == SortBy(NameOrder, DOMAIN apps)
  IN [i \in 1..Len(names) |-> DevwrapRoute(apps[names[i]])]

\* Faulty variant: the owned routes of the live list are not dropped.
mergeKeepingOwned(server, devwrapRoutes) == server.routes \o devwrapRoutes

\* mergeExternalRoutes: the live routes without the owned ones, then the
\* freshly computed owned routes.
mergeExternalRoutes(server, devwrapRoutes) ==
  LET IsForeign(r) == ~HasOwnedMarker(r)
  IN SelectSeq(server.routes, IsForeign) \o devwrapRoutes

(* ------------------------- topology resolver -------------------------- *)

\* A listen address is <<host, port>>; parseListenPort takes what follows the
\* last colon.
parseListenPort(addr) == addr[2]

firstListenPort(server) ==
  IF Len(server.listen) = 0 THEN 0 ELSE parseListenPort(server.listen[1])

hasListenPort(server, want) ==
  \E i \in 1..Len(server.listen) : parseListenPort(server.listen[i]) = want

\* tls_connection_policies is a non-empty list
isTLSServer(server) == server.tls

\* Faulty variant: the last name of the ascending order is taken.
LastByName(S) ==
  IF S = {} THEN ""
  ELSE CHOOSE x \in S : \A y \in S : RankIn(ServerOrder, y) <= RankIn(ServerOrder, x)

\* The first name of sort.Strings(names) that is in S, "" when there is none.
FirstByName(S) ==
  IF S = {} THEN ""
  ELSE CHOOSE x \in S : \A y \in S : RankIn(ServerOrder, x) <= RankIn(ServerOrder, y)

PortOr(p, dflt) == IF p > 0 THEN p ELSE dflt

\* Faulty variant: the reserved servers get no special handling.
reservedIgnored(srv) == FALSE

\* parseExternalServers, line 269, and inspectExternalCaddy, line 33: the
\* configuration is taken for the self-managed one.
reservedPresent(srv) == "devwrap-http" \in DOMAIN srv

\* parseExternalServers: [err, httpPort, httpsPort, httpName, httpsName]
parseExternalServers(srv) ==
  IF reservedPresent(srv) THEN
    LET httpPort == PortOr(firstListenPort(srv["devwrap-http"]), DefaultHTTPPort)
        hasHTTPS == "devwrap-https" \in DOMAIN srv
    IN [err |-> FALSE, httpPort |-> httpPort,
        httpsPort |-> IF hasHTTPS
                      THEN PortOr(firstListenPort(srv["devwrap-https"]), DefaultHTTPSPort)
                      ELSE httpPort,
        httpName |-> "devwrap-http",
        httpsName |-> IF hasHTTPS THEN "devwrap-https" ELSE ""]
  ELSE
    LET tlsNames == {n \in DOMAIN srv :
                       isTLSServer(srv[n]) \/ hasListenPort(srv[n], DefaultHTTPSPort)}
        httpsFirst == FirstByName(tlsNames)
        httpFirst == FirstByName(DOMAIN srv \ tlsNames)
    IN IF httpFirst = "" /\ httpsFirst = ""
       THEN [err |-> TRUE, httpPort |-> 0, httpsPort |-> 0,
             httpName |-> "", httpsName |-> ""]
       ELSE [err |-> FALSE,
             httpPort |-> IF httpFirst = "" THEN DefaultHTTPPort
                          ELSE PortOr(firstListenPort(srv[httpFirst]), DefaultHTTPPort),
             httpsPort |-> IF httpsFirst = "" THEN DefaultHTTPSPort
                           ELSE PortOr(firstListenPort(srv[httpsFirst]), DefaultHTTPSPort),
             httpName |-> IF httpFirst = "" THEN httpsFirst ELSE httpFirst,
             httpsName |-> IF httpsFirst = "" THEN httpFirst ELSE httpsFirst]

(* ------------------------- admin write protocol ----------------------- *)

\* What the admin API answers to the PATCH, the DELETE and the PUT of one
\* list write: "ok" (2xx), "rej" (a status >= 300), "err" (no response).
ReplyPatched == [patch |-> "ok", delete |-> "ok", put |-> "ok"]

ReplyRecreated == [patch |-> "rej", delete |-> "ok", put |-> "ok"]

ReplyWiped == [patch |-> "rej", delete |-> "ok", put |-> "rej"]

ReplyRefused == [patch |-> "rej", delete |-> "err", put |-> "rej"]

ReplyDown == [patch |-> "err", delete |-> "err", put |-> "err"]

PutReplies == {ReplyPatched, ReplyRecreated, ReplyWiped, ReplyRefused, ReplyDown}

ContinuingReplies == {ReplyPatched, ReplyRecreated}

\* A request of a list write: the method and the JSON body.
Request(method, body) == [method |-> method, body |-> body]

\* Faulty variant: after a rejected PATCH the PUT is sent without the DELETE,
\* and once more when it is rejected.
putRetryingPut(live, payload, reply) ==
  IF reply.patch = "err"
  THEN [err |-> TRUE, value |-> live, sent |-> <<Request("PATCH", payload)>>]
  ELSE IF reply.patch = "ok"
  THEN [err |-> FALSE, value |-> payload, sent |-> <<Request("PATCH", payload)>>]
  ELSE IF reply.put = "ok"
  THEN [err |-> FALSE, value |-> payload,
        sent |-> <<Request("PATCH", payload), Request("PUT", payload)>>]
  ELSE [err |-> TRUE, value |-> live,
        sent |-> <<Request("PATCH", payload), Request("PUT", payload),
                   Request("PUT", payload)>>]

\* putExternalRoutes / putTLSAutomationPolicies on a list whose live value is
\* `live`: PATCH; on a status >= 300, DELETE (its outcome ignored) and PUT.
\* [err, value, sent]: sent is the sequence of the requests issued.
putWithFallback(live, payload, reply) ==
  IF reply.patch = "err"
  THEN [err |-> TRUE, value |-> live, sent |-> <<Request("PATCH", payload)>>]
  ELSE IF reply.patch = "ok"
  THEN [err |-> FALSE, value |-> payload, sent |-> <<Request("PATCH", payload)>>]
  ELSE LET afterDelete == IF reply.delete = "ok" THEN <<>> ELSE live
           fallback == <<Request("PATCH", payload), Request("DELETE", <<>>),
                         Request("PUT", payload)>>
       IN IF reply.put = "ok"
          THEN [err |-> FALSE, value |-> payload, sent |-> fallback]
          ELSE [err |-> TRUE, value |-> afterDelete, sent |-> fallback]

\* [err, servers, sent]
putExternalRoutes(srv, serverName, routes, reply) ==
  LET written(r) == [err |-> r.err,
                     servers |-> [srv EXCEPT ![serverName].routes = r.value],
                     sent |-> r.sent]
  IN written(putWithFallback(srv[serverName].routes, routes, reply))

(* ---------------------- TLS subject policy sync ----------------------- *)

Policy(id, subjects) == [id |-> id, subjects |-> subjects, issuer |-> "internal"]

\* strings.ToLower over the labels of the hosts.
LowerLabel(label) == IF label = "Test" THEN "test" ELSE label

\* tlsSubjectForHost: "*." + what follows the first dot, the host itself when
\* it has no dot (a host is its sequence of labels).
tlsSubjectForHost(host) ==
  LET h == [i \in 1..Len(host) |-> LowerLabel(host[i])]
  IN IF Len(h) >= 2 THEN <<"*">> \o Tail(h) ELSE h

TLSSubjects(apps) ==
  SortBy(SubjectOrder, {tlsSubjectForHost(apps[n].host) : n \in DOMAIN apps})

\* Faulty variant: the policy of devwrap is appended after the foreign ones.
mergeAppendingOwnPolicy(existing, hosts) ==
  LET IsForeign(p) == "id" \notin DOMAIN p \/ p.id # devwrapInternalTLSPolicyID
      own == IF Len(hosts) > 0
             THEN <<Policy(devwrapInternalTLSPolicyID, hosts)>> ELSE <<>>
  IN SelectSeq(existing, IsForeign) \o own

\* mergeDevwrapInternalTLSPolicy: a list element that is no JSON object (it
\* has no id field) is kept like a foreign policy.
mergeDevwrapInternalTLSPolicy(existing, hosts) ==
  LET IsForeign(p) == "id" \notin DOMAIN p \/ p.id # devwrapInternalTLSPolicyID
      own == IF Len(hosts) > 0
             THEN <<Policy(devwrapInternalTLSPolicyID, hosts)>> ELSE <<>>
  IN own \o SelectSeq(existing, IsForeign)

\* Faulty variant: the TLS app is created also for an empty subject list.
syncCreatingForNoSubjects(pol, apps, tlsFetch, reply) ==
  LET subjects == TLSSubjects(apps)
      merged == mergeDevwrapInternalTLSPolicy(IF pol.found THEN pol.list ELSE <<>>, subjects)
  IN IF tlsFetch = "err" THEN [err |-> TRUE, policies |-> pol, wrote |-> FALSE]
     ELSE IF pol.found THEN
       LET r == putWithFallback(pol.list, merged, reply)
       IN [err |-> r.err,
           policies |-> IF ~r.err \/ reply.patch = "err" \/ reply.delete # "ok"
                        THEN [found |-> TRUE, list |-> r.value]
                        ELSE [found |-> FALSE, list |-> <<>>],
           wrote |-> TRUE]
     ELSE IF reply.put = "ok"
       THEN [err |-> FALSE, policies |-> [found |-> TRUE, list |-> merged], wrote |-> TRUE]
       ELSE [err |-> TRUE, policies |-> pol, wrote |-> TRUE]

\* syncDevwrapInternalTLSPolicy: [err, policies, wrote]; tlsFetch is the answer
\* to the GET of the policy list, reply the answers to the write.
syncDevwrapInternalTLSPolicy(pol, apps, tlsFetch, reply) ==
  LET subjects == TLSSubjects(apps)
      merged == mergeDevwrapInternalTLSPolicy(IF pol.found THEN pol.list ELSE <<>>, subjects)
  IN IF tlsFetch = "err" THEN [err |-> TRUE, policies |-> pol, wrote |-> FALSE]
     ELSE IF pol.found THEN
       \* putTLSAutomationPolicies
       LET r == putWithFallback(pol.list, merged, reply)
       IN [err |-> r.err,
           policies |-> IF ~r.err \/ reply.patch = "err" \/ reply.delete # "ok"
                        THEN [found |-> TRUE, list |-> r.value]
                        ELSE [found |-> FALSE, list |-> <<>>],
           wrote |-> TRUE]
     ELSE IF Len(subjects) = 0 THEN [err |-> FALSE, policies |-> pol, wrote |-> FALSE]
     ELSE \* createTLSAppWithPolicies
       IF reply.put = "ok"
       THEN [err |-> FALSE, policies |-> [found |-> TRUE, list |-> merged], wrote |-> TRUE]
       ELSE [err |-> TRUE, policies |-> pol, wrote |-> TRUE]

(* ------------------------ applyRoutesViaAdmin ------------------------- *)

\* The admin API's answers during one applyRoutesViaAdmin call.
AdminScript(fetch, http, https, tlsFetch, tls) ==
  [fetch |-> fetch, http |-> http, https |-> https, tlsFetch |-> tlsFetch, tls |-> tls]

\* Scripts that differ in what the program sees: after a failed step the
\* remaining answers are never asked for.
Scripts ==
  {AdminScript("err", ReplyDown, ReplyDown, "err", ReplyDown)}
  \cup {AdminScript("ok", h, ReplyDown, "err", ReplyDown) :
          h \in PutReplies \ ContinuingReplies}
  \cup {AdminScript("ok", h, s, "err", ReplyDown) :
          h \in ContinuingReplies, s \in PutReplies}
  \cup {AdminScript("ok", h, s, "ok", t) :
          h \in ContinuingReplies, s \in ContinuingReplies, t \in PutReplies}

\* The script of an admin API that accepts every call.
HealthyScript == AdminScript("ok", ReplyPatched, ReplyPatched, "ok", ReplyPatched)

\* An operation counts as faulty when an admin call or the save fails in it.
FaultCost(script, saveOk) == IF script = HealthyScript /\ saveOk THEN 0 ELSE 1

\* fetchExternalServers fails when the admin API does not answer or lists no
\* HTTP server.
fetchFails(srv, script) == script.fetch = "err" \/ DOMAIN srv = {}

\* applyRoutesViaAdmin: [err, httpPort, httpsPort, servers, policies, wrote]
applyRoutesViaAdmin(apps, srv, pol, script) ==
  LET failed(s, p, w) == [err |-> TRUE, httpPort |-> 0, httpsPort |-> 0,
                          servers |-> s, policies |-> p, wrote |-> w]
      topo == parseExternalServers(srv)
      devwrapRoutes == makeDevwrapRoutes(apps)
  IN IF fetchFails(srv, script) THEN failed(srv, pol, FALSE)
     ELSE IF topo.err THEN failed(srv, pol, FALSE)
     ELSE
       LET httpRoutes == mergeExternalRoutes(srv[topo.httpName], devwrapRoutes)
           h == putExternalRoutes(srv, topo.httpName, httpRoutes, script.http)
       IN IF h.err THEN failed(h.servers, pol, TRUE)
          ELSE
            \* the HTTPS list is merged from the servers fetched at the start
            LET s == IF topo.httpsName = "" THEN h
                     ELSE putExternalRoutes(h.servers, topo.httpsName,
                            mergeExternalRoutes(srv[topo.httpsName], devwrapRoutes),
                            script.https)
            IN IF s.err THEN failed(s.servers, pol, TRUE)
               ELSE
                 LET t == syncDevwrapInternalTLSPolicy(pol, apps, script.tlsFetch, script.tls)
                 IN [err |-> t.err,
                     httpPort |-> IF t.err THEN 0 ELSE topo.httpPort,
                     httpsPort |-> IF t.err THEN 0 ELSE topo.httpsPort,
                     servers |-> s.servers, policies |-> t.policies, wrote |-> TRUE]

(* ------------------------------ leases -------------------------------- *)

NoLease == [name |-> "", host |-> <<>>, port |-> 0,
            httpURL |-> <<>>, httpsURL |-> <<>>, trusted |-> FALSE]

\* A URL is <<scheme, host, port>>, port 0 when the URL names none.
leaseFromAppAndPorts(app, httpPort, httpsPort, trusted) ==
  [name |-> app.name, host |-> app.host, port |-> app.port,
   httpURL |-> <<"http", app.host, IF httpPort # DefaultHTTPPort THEN httpPort ELSE 0>>,
   httpsURL |-> <<"https", app.host, IF httpsPort # DefaultHTTPSPort THEN httpsPort ELSE 0>>,
   trusted |-> trusted]

NoArg == [name |-> "", pid |-> 0]

(* ------------------------- initial configuration ---------------------- *)

ForeignRoute == Route(<<"", "site">>, <<"site", "test">>, 3000)

\* A route left behind under an owned id, dialling a port no lease records.
StaleRoute == Route(OwnedRouteID("api"), DefaultHost("api"), 3001)

\* A route-list element that is no JSON object.
RawRoute == [kind |-> "raw"]

InitRouteLists == {<<StaleRoute, ForeignRoute>>}

Server(host, port, tls, routes) ==
  [listen |-> << <<host, port>> >>, tls |-> tls, routes |-> routes]

\* An external Caddy with a plain and a TLS server.
SplitServers(routes) ==
  [n \in {"srv0", "srv1"} |->
     IF n = "srv0" THEN Server("", 80, FALSE, routes) ELSE Server("", 443, TRUE, routes)]

\* An external Caddy with one plain server.
SingleServer(routes) == [n \in {"srv0"} |-> Server("", 8080, FALSE, routes)]

InitServers ==
  {SplitServers(r) : r \in InitRouteLists} \cup {SingleServer(r) : r \in InitRouteLists}

ForeignPolicy == [id |-> "", subjects |-> <<>>, issuer |-> "internal"]

InitPolicies ==
  {[found |-> TRUE,
    list |-> <<ForeignPolicy, Policy(devwrapInternalTLSPolicyID, <<<<"*", "test">>>>)>>]}

Init ==
  /\ stateFile = [kind |-> "missing"]
  /\ lock = 0
  /\ servers \in InitServers
  /\ policies \in InitPolicies
  /\ pc = [p \in AllProcs |-> "idle"]
  /\ arg = [p \in AllProcs |-> NoArg]
  /\ base = [p \in AllProcs |-> DefaultState]
  /\ st = [p \in AllProcs |-> DefaultState]
  /\ lease = [p \in AllProcs |-> NoLease]
  /\ faults = 0

(* ---------------------------- withStateLock --------------------------- *)

\* Faulty variant: the flock is not waited for.
LockIgnored == TRUE

\* fileLock.Lock() returns once no other process holds the flock.
LockAvailable == lock = 0

\* withStateLock entered by p: the lock is taken and state.json loaded.
Enter(p, next, state) ==
  /\ LockAvailable
  /\ lock' = p
  /\ base' = [base EXCEPT ![p] = loadLocalState(stateFile)]
  /\ st' = [st EXCEPT ![p] = state]
  /\ pc' = [pc EXCEPT ![p] = next]

\* Faulty variant: the operation returns with the flock still held.
LeaveHoldingLock(p, next) ==
  /\ lock' = lock
  /\ pc' = [pc EXCEPT ![p] = next]
  /\ base' = [base EXCEPT ![p] = DefaultState]
  /\ st' = [st EXCEPT ![p] = DefaultState]
  /\ lease' = [lease EXCEPT ![p] = NoLease]
  /\ arg' = IF next = "idle" THEN [arg EXCEPT ![p] = NoArg] ELSE arg

\* The deferred fileLock.Unlock() and where the invocation goes next.
Leave(p, next) ==
  /\ lock' = IF lock = p THEN 0 ELSE lock
  /\ pc' = [pc EXCEPT ![p] = next]
  /\ base' = [base EXCEPT ![p] = DefaultState]
  /\ st' = [st EXCEPT ![p] = DefaultState]
  /\ lease' = [lease EXCEPT ![p] = NoLease]
  /\ arg' = IF next = "idle" THEN [arg EXCEPT ![p] = NoArg] ELSE arg

\* A failing admin call or save is drawn only while the fault budget lasts.
Faulty(script, saveOk) ==
  /\ faults + FaultCost(script, saveOk) <= MaxFaults
  /\ faults' = faults + FaultCost(script, saveOk)

(* ------------------------------ Acquire ------------------------------- *)

\* Faulty variant: an existing entry of the name is not re-used.
leaseEntryAlwaysAllocating(loaded, name, pid, busy) ==
  LET apps == EvictDead(pid, loaded.apps)
      a == allocatePortFromApps(apps, busy)
  IN IF a.err THEN [err |-> TRUE, state |-> [loaded EXCEPT !.apps = apps]]
     ELSE [err |-> FALSE,
           state |-> [loaded EXCEPT !.apps =
                        PutApp(apps, name,
                          [name |-> name, host |-> DefaultHost(name),
                           port |-> a.port, pid |-> pid])]]

\* requestLeaseDirect, lines 120-147: load, evict, re-use or allocate.
\* [err, state]
leaseEntry(loaded, name, pid, busy) ==
  LET apps == EvictDead(pid, loaded.apps)
  IN IF name \in DOMAIN apps
     THEN [err |-> FALSE,
           state |-> [loaded EXCEPT !.apps =
                        PutApp(apps, name, [apps[name] EXCEPT !.pid = pid])]]
     ELSE LET a == allocatePortFromApps(apps, busy)
          IN IF a.err THEN [err |-> TRUE, state |-> [loaded EXCEPT !.apps = apps]]
             ELSE [err |-> FALSE,
                   state |-> [loaded EXCEPT !.apps =
                                PutApp(apps, name,
                                  [name |-> name, host |-> DefaultHost(name),
                                   port |-> a.port, pid |-> pid])]]

\* `devwrap --name n -- cmd`: runApp calls acquireLease(n, host, os.Getpid());
\* requestLeaseDirect takes the lock and prepares the entry.
Acquire(p, n) ==
  /\ p \in Procs
  /\ pc[p] = "idle"
  /\ \E busy \in SUBSET (PortMin..PortMax) :
       LET e == leaseEntry(loadLocalState(stateFile), n, p, busy)
       IN Enter(p, IF e.err THEN "acq_err" ELSE "acq_cs", e.state)
  /\ arg' = [arg EXCEPT ![p] = [name |-> n, pid |-> p]]
  /\ UNCHANGED <<stateFile, servers, policies, lease, faults>>

\* The state requestLeaseDirect saves (lines 153-157).
acquiredState(state, httpPort, httpsPort) ==
  [state EXCEPT !.version = CurrentVersion, !.caddySource = "unmanaged",
                !.httpPort = httpPort, !.httpsPort = httpsPort,
                !.root = (httpPort = DefaultHTTPPort /\ httpsPort = DefaultHTTPSPort)]

\* Faulty variant: the state is saved whether or not the routes were applied.
fileAfterAcquireSavingFirst(f, new, applyErr, saveOk) == saveLocalState(f, new, saveOk)

\* What state.json holds after requestLeaseDirect's lines 149-160.
fileAfterAcquire(f, new, applyErr, saveOk) ==
  IF applyErr THEN f ELSE saveLocalState(f, new, saveOk)

\* What isCertTrusted gets for its GET /pki/ca/local: a root certificate that
\* verifies against the system roots, one that does not, or no certificate
\* (the request or the decoding failed).
CAReplies == {"trusted", "untrusted", "err"}

\* isCertTrusted: false on every error.
isCertTrusted(ca) == ca = "trusted"

\* Faulty variant: a certificate that cannot be fetched fails the request.
acquireResultNeedingCA(p, script, saveOk, ca) ==
  LET result(r, new, ok) ==
        [servers |-> r.servers, policies |-> r.policies,
         stateFile |-> fileAfterAcquire(stateFile, new, r.err, saveOk),
         st |-> IF r.err THEN st[p] ELSE new,
         ok |-> ok,
         lease |-> IF ok THEN leaseFromAppAndPorts(new.apps[arg[p].name], r.httpPort,
                                                   r.httpsPort, isCertTrusted(ca))
                   ELSE NoLease]
      applied(r) == result(r, acquiredState(st[p], r.httpPort, r.httpsPort),
                           ~r.err /\ saveOk /\ ca # "err")
  IN applied(applyRoutesViaAdmin(st[p].apps, servers, policies, script))

\* requestLeaseDirect, lines 149-162, for the admin answers of `script`, the
\* outcome of the save and the answer to the CA fetch: what it leaves behind
\* and returns.
acquireResult(p, script, saveOk, ca) ==
  LET result(r, new, ok) ==
        [servers |-> r.servers, policies |-> r.policies,
         stateFile |-> fileAfterAcquire(stateFile, new, r.err, saveOk),
         st |-> IF r.err THEN st[p] ELSE new,
         ok |-> ok,
         lease |-> IF ok THEN leaseFromAppAndPorts(new.apps[arg[p].name], r.httpPort,
                                                   r.httpsPort, isCertTrusted(ca))
                   ELSE NoLease]
      applied(r) == result(r, acquiredState(st[p], r.httpPort, r.httpsPort),
                           ~r.err /\ saveOk)
  IN applied(applyRoutesViaAdmin(st[p].apps, servers, policies, script))

\* requestLeaseDirect, lines 149-162: routes, TLS policy, save, lease.
AcquireCommit(p) ==
  /\ pc[p] = "acq_cs"
  /\ \E script \in Scripts, saveOk \in BOOLEAN, ca \in CAReplies :
       \E o \in {acquireResult(p, script, saveOk, ca)} :
          /\ Faulty(script, saveOk)
          /\ servers' = o.servers
          /\ policies' = o.policies
          /\ stateFile' = o.stateFile
          /\ st' = [st EXCEPT ![p] = o.st]
          /\ pc' = [pc EXCEPT ![p] = IF o.ok THEN "acq_ok" ELSE "acq_err"]
          /\ lease' = [lease EXCEPT ![p] = o.lease]
  /\ UNCHANGED <<lock, arg, base>>

\* acquireLease returned an error: runApp returns it.
AcquireFails(p) ==
  /\ pc[p] = "acq_err"
  /\ Leave(p, "idle")
  /\ UNCHANGED <<stateFile, servers, policies, faults>>

(* ------------------------------ runChild ------------------------------ *)

\* cmd.Start() succeeds; the invocation waits in cmd.Wait().
ChildStarts(p) ==
  /\ pc[p] = "acq_ok"
  /\ Leave(p, "child")
  /\ UNCHANGED <<stateFile, servers, policies, faults>>

\* cmd.Start() fails: runChild returns the error (lines 368-370).
ChildStartFails(p) ==
  /\ pc[p] = "acq_ok"
  /\ Leave(p, "idle")
  /\ UNCHANGED <<stateFile, servers, policies, faults>>

\* The invocation itself is killed (SIGKILL): nothing of it runs any more.
Crash(p) ==
  /\ pc[p] = "child"
  /\ pc' = [pc EXCEPT ![p] = "idle"]
  /\ arg' = [arg EXCEPT ![p] = NoArg]
  /\ UNCHANGED <<stateFile, lock, servers, policies, base, st, lease, faults>>

(* ------------------------------ Release ------------------------------- *)

\* Faulty variant: the recorded owner is not compared with pid.
releaseIgnoringOwner(apps, name, pid) == name \in DOMAIN apps

\* releaseLeaseDirect, lines 177-183: the entry exists and is the caller's.
releaseApplies(apps, name, pid) ==
  /\ name \in DOMAIN apps
  /\ ~(pid > 0 /\ apps[name].pid # pid)

\* releaseLeaseDirect(name, pid), lines 172-184.
releaseLeaseDirect(p, name, pid) ==
  LET loaded == loadLocalState(stateFile)
  IN IF releaseApplies(loaded.apps, name, pid)
     THEN Enter(p, "rel_cs", [loaded EXCEPT !.apps = DeleteApp(loaded.apps, name)])
     ELSE Enter(p, "rel_noop", loaded)

\* cmd.Wait() returns (exit status zero or not, or the child was signalled):
\* release() calls releaseLeaseSelected(name, os.Getpid()) (lines 384-387).
Release(p) ==
  /\ pc[p] = "child"
  /\ releaseLeaseDirect(p, arg[p].name, p)
  /\ UNCHANGED <<stateFile, servers, policies, arg, lease, faults>>

\* The tail shared by releaseLeaseDirect and removeDirect: routes, then save.
WriteBack(p, okPc, errPc) ==
  \E script \in Scripts, saveOk \in BOOLEAN :
    LET r == applyRoutesViaAdmin(st[p].apps, servers, policies, script)
        ok == ~r.err /\ saveOk
    IN /\ Faulty(script, saveOk)
       /\ servers' = r.servers
       /\ policies' = r.policies
       /\ stateFile' = IF r.err THEN stateFile ELSE saveLocalState(stateFile, st[p], saveOk)
       /\ pc' = [pc EXCEPT ![p] = IF ok THEN okPc ELSE errPc]

ReleaseCommit(p) ==
  /\ pc[p] = "rel_cs"
  /\ WriteBack(p, "rel_ok", "rel_err")
  /\ UNCHANGED <<lock, arg, base, st, lease>>

\* releaseLeaseDirect returns; runChild returns and the invocation exits.
ReleaseEnd(p) ==
  /\ pc[p] \in {"rel_ok", "rel_noop", "rel_err"}
  /\ Leave(p, "idle")
  /\ UNCHANGED <<stateFile, servers, policies, faults>>

(* ------------------------------- Remove ------------------------------- *)

\* `devwrap rm n`: removeDirect(n), lines 194-201.
Remove(p, n) ==
  /\ p = Cli
  /\ pc[p] = "idle"
  /\ LET loaded == loadLocalState(stateFile)
     IN IF n \in DOMAIN loaded.apps
        THEN Enter(p, "rm_cs", [loaded EXCEPT !.apps = DeleteApp(loaded.apps, n)])
        ELSE Enter(p, "rm_noop", loaded)
  /\ arg' = [arg EXCEPT ![p] = [name |-> n, pid |-> 0]]
  /\ UNCHANGED <<stateFile, servers, policies, lease, faults>>

RemoveCommit(p) ==
  /\ pc[p] = "rm_cs"
  /\ WriteBack(p, "rm_ok", "rm_err")
  /\ UNCHANGED <<lock, arg, base, st, lease>>

RemoveEnd(p) ==
  /\ pc[p] \in {"rm_ok", "rm_noop", "rm_err"}
  /\ Leave(p, "idle")
  /\ UNCHANGED <<stateFile, servers, policies, faults>>

(* ------------------------------- Status ------------------------------- *)

\* inspectExternalCaddy: the servers are fetched and classified.
inspectFails(srv, fetch) ==
  fetch = "err" \/ DOMAIN srv = {} \/ parseExternalServers(srv).err

\* Faulty variant: the routes are applied and the state saved on every call.
statusAlwaysChanged(loaded, live) == TRUE

\* localStatusFromFiles, lines 75-82: `changed` after the eviction loop.
statusChanged(loaded, live) == live # loaded

\* localStatusFromFiles, lines 86-90: the apps of the answer, sorted by name.
statusApps(apps) ==
  LET names == SortBy(NameOrder, DOMAIN apps)
  IN [i \in 1..Len(names) |-> apps[names[i]]]

\* inspectExternalCaddy: [err, httpPort, httpsPort, managed]
inspectExternalCaddy(srv, fetch) ==
  LET topo == parseExternalServers(srv)
  IN IF inspectFails(srv, fetch)
     THEN [err |-> TRUE, httpPort |-> 0, httpsPort |-> 0, managed |-> FALSE]
     ELSE [err |-> FALSE, httpPort |-> topo.httpPort, httpsPort |-> topo.httpsPort,
           managed |-> reservedPresent(srv)]

\* `devwrap proxy status`, `devwrap ls`: localStatusFromFiles, lines 66-81.
Status(p) ==
  /\ p = Cli
  /\ pc[p] = "idle"
  /\ \E fetch \in {"ok", "err"} :
       LET loaded == loadLocalState(stateFile)
           live == EvictDead(p, loaded.apps)
           cost == IF fetch = "err" THEN 1 ELSE 0
       IN /\ faults + cost <= MaxFaults
          /\ faults' = faults + cost
          /\ IF inspectFails(servers, fetch) THEN Enter(p, "st_err", loaded)
             ELSE IF statusChanged(loaded.apps, live)
                  THEN Enter(p, "st_cs", [loaded EXCEPT !.apps = live])
                  ELSE Enter(p, "st_noop", loaded)
  /\ UNCHANGED <<stateFile, servers, policies, arg, lease>>

\* localStatusFromFiles, lines 82-85: both results are discarded.
StatusCommit(p) ==
  /\ pc[p] = "st_cs"
  /\ \E script \in Scripts, saveOk \in BOOLEAN :
       LET r == applyRoutesViaAdmin(st[p].apps, servers, policies, script)
       IN /\ Faulty(script, saveOk)
          /\ servers' = r.servers
          /\ policies' = r.policies
          /\ stateFile' = saveLocalState(stateFile, st[p], saveOk)
          /\ pc' = [pc EXCEPT ![p] = "st_ok"]
  /\ UNCHANGED <<lock, arg, base, st, lease>>

StatusEnd(p) ==
  /\ pc[p] \in {"st_ok", "st_noop", "st_err"}
  /\ Leave(p, "idle")
  /\ UNCHANGED <<stateFile, servers, policies, faults>>

(* ------------------------ Release as an operation --------------------- *)

\* releaseLeaseDirect(n, pid) called with any pid value, by an invocation that
\* runs no child.
ReleaseCall(p, n, pid) ==
  /\ p = Cli
  /\ pc[p] = "idle"
  /\ releaseLeaseDirect(p, n, pid)
  /\ arg' = [arg EXCEPT ![p] = [name |-> n, pid |-> pid]]
  /\ UNCHANGED <<stateFile, servers, policies, lease, faults>>

(* ----------------------- the route merge on its own ------------------- *)

RECURSIVE SeqsUpTo(_, _)
SeqsUpTo(S, n) ==
  IF n = 0 THEN {<<>>}
  ELSE LET shorter == SeqsUpTo(S, n - 1)
       IN shorter \cup {Append(q, x) : q \in {r \in shorter : Len(r) = n - 1}, x \in S}

\* Live route lists: foreign objects, non-objects, owned routes of tracked and
\* of untracked names.
LiveRoutes ==
  {ForeignRoute, RawRoute, StaleRoute, Route(OwnedRouteID("old"), DefaultHost("old"), PortMin)}

LiveRouteLists == SeqsUpTo(LiveRoutes, MaxRoutes)

TrackedApp(n, port) == [name |-> n, host |-> DefaultHost(n), port |-> port, pid |-> 1]

\* Tracked app sets: every subset of the names, ports in either order.
TrackedAppSets ==
  {[n \in D |-> TrackedApp(n, IF flip THEN PortMin + RankIn(NameOrder, n) - 1
                                ELSE PortMin + Len(NameOrder) - RankIn(NameOrder, n))] :
     D \in SUBSET Names, flip \in BOOLEAN}

InitMerge ==
  /\ stateFile = [kind |-> "missing"]
  /\ lock = 0
  /\ servers \in {SingleServer(r) : r \in LiveRouteLists}
  /\ policies \in InitPolicies
  /\ pc = [p \in AllProcs |-> "idle"]
  /\ arg = [p \in AllProcs |-> NoArg]
  /\ base = [p \in AllProcs |-> DefaultState]
  /\ \E apps \in TrackedAppSets :
       st = [p \in AllProcs |-> [DefaultState EXCEPT !.apps = apps]]
  /\ lease = [p \in AllProcs |-> NoLease]
  /\ faults = 0

\* applyRoutesViaAdmin, lines 47-49: the owned routes are computed and merged
\* into the live list of the HTTP server.
MergeRoutes ==
  /\ pc[Cli] = "idle"
  /\ servers' = [servers EXCEPT !["srv0"].routes =
                   mergeExternalRoutes(servers["srv0"], makeDevwrapRoutes(st[Cli].apps))]
  /\ pc' = [pc EXCEPT ![Cli] = "merged"]
  /\ UNCHANGED <<stateFile, lock, policies, arg, base, st, lease, faults>>

(* --------------------------- specification ---------------------------- *)

Next ==
  \E p \in AllProcs :
    \/ \E n \in Names : Acquire(p, n)
    \/ AcquireCommit(p)
    \/ AcquireFails(p)
    \/ ChildStarts(p)
    \/ ChildStartFails(p)
    \/ Crash(p)
    \/ Release(p)
    \/ ReleaseCommit(p)
    \/ ReleaseEnd(p)
    \/ \E n \in Names : Remove(p, n)
    \/ RemoveCommit(p)
    \/ RemoveEnd(p)
    \/ Status(p)
    \/ StatusCommit(p)
    \/ StatusEnd(p)

Spec == Init /\ [][Next]_vars

\* The program together with Release called as an operation of its own.
NextRelease ==
  \/ Next
  \/ \E n \in Names, pid \in 0..NumProcs : ReleaseCall(Cli, n, pid)

SpecRelease == Init /\ [][NextRelease]_vars

\* The route merge applied to bounded inputs.
NextMerge == MergeRoutes

SpecMerge == InitMerge /\ [][NextMerge]_vars

(* ------------------------------ properties ---------------------------- *)

\* What a reader of state.json gets.
Persisted == loadLocalState(stateFile)

\* Positions inside withStateLock.
InCritical ==
  {"acq_cs", "acq_ok", "acq_err", "rel_cs", "rel_ok", "rel_noop", "rel_err",
   "rm_cs", "rm_ok", "rm_noop", "rm_err", "st_cs", "st_ok", "st_noop", "st_err"}

\* Positions inside withStateLock at which the invocation has written nothing.
BeforeWrite == {"acq_cs", "rel_cs", "rel_noop", "rm_cs", "rm_noop", "st_cs", "st_noop", "st_err"}

\* The servers applyRoutesViaAdmin writes to.
TargetServers(srv) ==
  LET topo == parseExternalServers(srv)
  IN IF topo.err THEN {} ELSE {topo.httpName, topo.httpsName} \ {""}

ForeignRoutes(routes) ==
  LET IsForeign(r) == ~HasOwnedMarker(r)
  IN SelectSeq(routes, IsForeign)

C2_PortsDistinct ==
  \A n, m \in DOMAIN Persisted.apps :
    n # m => Persisted.apps[n].port # Persisted.apps[m].port

\* Two apps are persisted, the lower port taken by the second name.
C2_TwoAppsPersisted ==
  /\ DOMAIN Persisted.apps = Names
  /\ Persisted.apps["web"].port = PortMin
  /\ Persisted.apps["api"].port = PortMin + 1

\* One owned route per app, none for another name, host and dial the app's.
OwnedExactly(routes, apps) ==
  /\ \A n \in DOMAIN apps :
       Cardinality({i \in 1..Len(routes) :
                      HasOwnedMarker(routes[i]) /\ routes[i].id = OwnedRouteID(n)}) = 1
  /\ \A i \in 1..Len(routes) :
       HasOwnedMarker(routes[i]) =>
         \E n \in DOMAIN apps :
           /\ routes[i].id = OwnedRouteID(n)
           /\ routes[i].host = apps[n].host
           /\ routes[i].dial = apps[n].port

ReconciledAt(positions) ==
  \A p \in AllProcs :
    pc[p] \in positions =>
      \A s \in TargetServers(servers) : OwnedExactly(servers[s].routes, Persisted.apps)

\* C3 (as amended): after every successful Acquire, and after every successful
\* Release or Remove that deleted a tracked lease, each target server holds
\* exactly one owned route per persisted app and none for another name, with
\* the app's host and port, whatever owned routes it held before.
C3_ReconciledAfterWrite == ReconciledAt({"acq_ok", "rel_ok", "rm_ok"})

\* A Release wrote both target servers while another app stays persisted.
C3_ReleaseReconciled ==
  \E p \in Procs :
    /\ pc[p] = "rel_ok"
    /\ DOMAIN Persisted.apps # {}
    /\ Cardinality(TargetServers(servers)) = 2

\* C3 as stated: after every successful Acquire, Release or Remove, also one
\* that found nothing to delete, the target servers hold exactly the owned
\* routes of the persisted apps.
C3_ReconciledAfterEveryCall ==
  ReconciledAt({"acq_ok", "rel_ok", "rel_noop", "rm_ok", "rm_noop"})

\* C5: reconciliation never removes or alters a foreign route: across every
\* step, every server's foreign routes are the ones it had.
C5_ForeignRoutesKept ==
  [][\A s \in DOMAIN servers :
       ForeignRoutes(servers'[s].routes) = ForeignRoutes(servers[s].routes)]_vars

\* C6: a Status, Acquire or Release call that reads the state while it holds
\* a lease whose owner is not alive goes on without that lease: the state the
\* call keeps (and persists) holds no lease of a dead owner.
C6_DeadLeasesDropped ==
  [][\A p \in AllProcs :
       (/\ pc[p] \in {"idle", "child"}
        /\ pc'[p] \in {"acq_cs", "rel_cs", "rel_noop", "st_cs", "st_noop"})
       => \A n \in DOMAIN st'[p].apps : processAlive(p, st'[p].apps[n].pid)]_vars

\* The re-acquired name had a lease of a live owner when Acquire read the state.
Reacquired(p) ==
  /\ pc[p] = "acq_ok"
  /\ arg[p].name \in DOMAIN base[p].apps
  /\ processAlive(p, base[p].apps[arg[p].name].pid)

C9_FailedAcquireKeepsState ==
  [][\A p \in Procs :
       (pc[p] # "acq_err" /\ pc'[p] = "acq_err") => stateFile' = stateFile]_vars

\* An Acquire failed after its route for the new name reached a server.
C9_FailedAfterRouteWrite ==
  \E p \in Procs :
    /\ pc[p] = "acq_err"
    /\ stateFile.kind = "doc"
    /\ arg[p].name \notin DOMAIN Persisted.apps
    /\ \E s \in DOMAIN servers :
         \E i \in 1..Len(servers[s].routes) :
           /\ servers[s].routes[i].id = OwnedRouteID(arg[p].name)
           /\ servers[s].routes[i].dial \in PortMin..PortMax

\* C10: a run invocation whose Acquire succeeded executes Release before it
\* exits: it ends only out of Release (or out of a failed Acquire, or by being
\* killed itself while it waits for the child), never straight after Acquire.
C10_ReleaseBeforeExit ==
  [][\A p \in Procs :
       (pc[p] # "idle" /\ pc'[p] = "idle")
       => pc[p] \in {"rel_ok", "rel_noop", "rel_err", "acq_err", "child"}]_vars

\* The step in which an invocation calls Release for a name whose recorded
\* owner is not the pid it passes.
ForeignRelease(p) ==
  /\ pc[p] \in {"idle", "child"}
  /\ pc'[p] \in {"rel_cs", "rel_noop"}
  /\ arg'[p].name \in DOMAIN Persisted.apps
  /\ Persisted.apps[arg'[p].name].pid # arg'[p].pid

FilesUnchanged == stateFile' = stateFile /\ servers' = servers /\ policies' = policies

C4_MergedList ==
  [][(pc[Cli] = "idle" /\ pc'[Cli] = "merged") =>
       LET live == servers["srv0"].routes
           merged == servers'["srv0"].routes
           apps == st[Cli].apps
           foreign == ForeignRoutes(live)
           k == Len(foreign)
       IN /\ Len(merged) = k + Cardinality(DOMAIN apps)
          /\ SubSeq(merged, 1, k) = foreign
          /\ \A j \in (k + 1)..Len(merged) :
               \E n \in DOMAIN apps :
                 merged[j] = Route(OwnedRouteID(n), apps[n].host, apps[n].port)
          /\ \A i, j \in (k + 1)..Len(merged) :
               i < j => RankIn(NameOrder, merged[i].id[2]) < RankIn(NameOrder, merged[j].id[2])]_vars

\* A merge produced two foreign routes followed by the routes of both apps.
C4_MergedTwoAndTwo ==
  /\ pc[Cli] = "merged"
  /\ DOMAIN st[Cli].apps = Names
  /\ LET merged == servers["srv0"].routes
     IN /\ Len(merged) = 4
        /\ merged[1] = RawRoute
        /\ merged[2] = ForeignRoute
        /\ merged[3].id = OwnedRouteID("api")
        /\ merged[4].id = OwnedRouteID("web")

(* ------------------------ the allocator on its own -------------------- *)

\* Recorded leases another invocation (pid 2) left: any subset of the names on
\* distinct ports of the range.
RecordedAppSets ==
  {apps \in UNION {[D -> [name : Names, host : {DefaultHost(n) : n \in Names},
                          port : PortMin..PortMax, pid : {2}]] : D \in SUBSET Names} :
     /\ \A n \in DOMAIN apps : apps[n].name = n /\ apps[n].host = DefaultHost(n)
     /\ \A m, n \in DOMAIN apps : m # n => apps[m].port # apps[n].port}

\* The --host values of the requests: none, and "App.Test".
CustomHosts == {<<>>, <<"A", "p", "p", ".", "T", "e", "s", "t">>}

\* Invocation 1 is about to request a lease; the ports the bind probe refuses
\* are part of its input. Invocation 2 still runs its child or has gone.
InitAlloc ==
  /\ \E apps \in RecordedAppSets :
       stateFile \in {[kind |-> "missing"],
                      [kind |-> "doc", doc |-> [DefaultState EXCEPT !.apps = apps]]}
  /\ lock = 0
  /\ servers \in InitServers
  /\ policies \in InitPolicies
  /\ \E other \in {"idle", "child"} :
       pc = [p \in AllProcs |-> IF p = 2 THEN other ELSE "idle"]
  /\ \E n \in Names, refused \in SUBSET (PortMin..PortMax), host \in CustomHosts :
       arg = [p \in AllProcs |->
                IF p = 1 THEN [name |-> n, pid |-> 1, refused |-> refused, rawHost |-> host]
                ELSE NoArg]
  /\ base = [p \in AllProcs |-> DefaultState]
  /\ st = [p \in AllProcs |-> DefaultState]
  /\ lease = [p \in AllProcs |-> NoLease]
  /\ faults = 0

\* runApp's acquireLease(name, resolvedHost, pid) (client.go:35), which ends in
\* requestLeaseDirect(name, pid), up to the allocation; the bind probe refuses
\* exactly the ports of arg[p].refused. The resolved host is not among the
\* parameters of requestLeaseDirect.
AcquireProbed(p) ==
  /\ pc[p] = "idle"
  /\ arg[p].name # ""
  /\ LET e == leaseEntry(loadLocalState(stateFile), arg[p].name, p, arg[p].refused)
     IN Enter(p, IF e.err THEN "acq_err" ELSE "acq_cs", e.state)
  /\ UNCHANGED <<stateFile, servers, policies, arg, lease, faults>>

NextAlloc ==
  \E p \in Procs :
    \/ AcquireProbed(p)
    \/ AcquireCommit(p)
    \/ AcquireFails(p)

SpecAlloc == InitAlloc /\ [][NextAlloc]_vars

\* The ports of the range that the live recorded leases and the probe leave.
FreePorts(p) ==
  LET apps == EvictDead(p, Persisted.apps)
  IN {q \in PortMin..PortMax :
        /\ \A n \in DOMAIN apps : apps[n].port # q
        /\ q \notin arg[p].refused}

\* C11: a request for a name without a live lease gets the smallest port of
\* the range that no live lease records and the probe does not refuse, and
\* fails exactly when there is none; on an empty state with every port
\* bindable the lease of "api" is api / api.localhost / 11000.
C11_SmallestFreePort ==
  /\ [][\A p \in Procs :
          (pc[p] = "idle" /\ pc'[p] # "idle"
             /\ arg[p].name \notin DOMAIN EvictDead(p, Persisted.apps)) =>
            /\ (pc'[p] = "acq_err") <=> (FreePorts(p) = {})
            /\ pc'[p] = "acq_cs" =>
                 LET port == st'[p].apps[arg[p].name].port
                 IN port \in FreePorts(p) /\ \A q \in FreePorts(p) : port <= q]_vars
  /\ [](\A p \in Procs :
          (pc[p] = "acq_ok" /\ DOMAIN base[p].apps = {} /\ arg[p].refused = {}
             /\ arg[p].name = "api") =>
            /\ lease[p].name = "api"
            /\ lease[p].host = <<"api", "localhost">>
            /\ lease[p].port = 11000)

\* A lease was granted on the second port: the first is recorded by a live
\* lease or refused by the probe.
C11_SecondPortGranted ==
  /\ pc[1] = "acq_ok"
  /\ arg[1].name \notin DOMAIN base[1].apps
  /\ lease[1].port = PortMin + 1

(* ------------------------ the state store on its own ------------------ *)

\* File contents: no file, a text that is no JSON document (a truncated or
\* empty file among them), a complete document.
FileMissing == [kind |-> "missing"]

FileGarbled == [kind |-> "garbled"]

FileDoc(d) == [kind |-> "doc", doc |-> d]

\* The state directory: state.json with content `canon`, state.json.tmp with `tmp`.
StateDir(canon, tmp) ==
  IF canon.kind = "doc" THEN [kind |-> "doc", doc |-> canon.doc, tmp |-> tmp]
  ELSE IF canon.kind = "mistyped"
  THEN [kind |-> "mistyped", doc |-> canon.doc, bad |-> canon.bad, tmp |-> tmp]
  ELSE [kind |-> canon.kind, tmp |-> tmp]

\* The content of state.json.
Canonical(f) ==
  IF f.kind = "doc" THEN FileDoc(f.doc)
  ELSE IF f.kind = "mistyped" THEN [kind |-> "mistyped", doc |-> f.doc, bad |-> f.bad]
  ELSE [kind |-> f.kind]

\* Faulty variant: the document is written over state.json itself.
writeFileInPlace(f, content) == StateDir(content, f.tmp)

\* os.WriteFile(path + ".tmp", b, 0o644), line 58: `content` is what the
\* temporary file holds so far.
writeFileTmp(f, content) == StateDir(Canonical(f), content)

\* os.Rename(tmp, path), line 61.
renameTmp(f) == StateDir(f.tmp, FileMissing)

StoredAppSets ==
  {EmptyApps,
   [n \in {"api"} |-> TrackedApp("api", PortMin)],
   [n \in Names |-> TrackedApp(n, PortMin + RankIn(NameOrder, n) - 1)]}

\* Documents a state.json may hold: this and another schema version, the
\* current and the legacy source names, default and other listener ports.
StoredDocs ==
  {[version |-> v, caddySource |-> src, root |-> FALSE,
    httpPort |-> ports[1], httpsPort |-> ports[2], apps |-> apps] :
     v \in {CurrentVersion, CurrentVersion + 1},
     src \in {"", "existing", "spawned", "unmanaged", "managed"},
     ports \in {<<DefaultHTTPPort, DefaultHTTPSPort>>, <<8080, 8443>>},
     apps \in StoredAppSets}

InitFiles ==
  {FileMissing, FileGarbled, [kind |-> "unreadable"]}
    \cup {FileDoc(d) : d \in StoredDocs}
    \cup {[kind |-> "mistyped", doc |-> d, bad |-> k] :
            d \in StoredDocs, k \in {"httpPort", "apps"}}

InitStore ==
  /\ \E canon \in InitFiles :
       stateFile = StateDir(canon, FileMissing)
  /\ lock = 0
  /\ servers \in {SingleServer(<<>>)}
  /\ policies \in InitPolicies
  /\ pc = [p \in AllProcs |-> "idle"]
  /\ arg = [p \in AllProcs |-> NoArg]
  /\ base = [p \in AllProcs |-> DefaultState]
  /\ st = [p \in AllProcs |-> DefaultState]
  /\ lease = [p \in AllProcs |-> NoLease]
  /\ faults = 0

\* withStateLock and loadLocalState as every operation begins.
StoreLoad(p) ==
  /\ pc[p] = "idle"
  /\ Enter(p, IF loadFails(stateFile) THEN "load_err" ELSE "loaded",
           loadLocalState(stateFile))
  /\ UNCHANGED <<stateFile, servers, policies, arg, lease, faults>>

\* What an operation does to the loaded state before it saves: the app map
\* changes; requestLeaseDirect (lines 153-154) and startDaemon stamp the
\* version and the source, release, remove and status leave them.
StoreEdit(p) ==
  /\ pc[p] = "loaded"
  /\ \E apps \in StoredAppSets, stamp \in {"", "unmanaged", "managed"} :
       st' = [st EXCEPT ![p] =
                IF stamp = "" THEN [st[p] EXCEPT !.apps = apps]
                ELSE [st[p] EXCEPT !.apps = apps, !.version = CurrentVersion,
                                   !.caddySource = stamp]]
  /\ pc' = [pc EXCEPT ![p] = "save_tmp"]
  /\ UNCHANGED <<stateFile, lock, servers, policies, arg, base, lease, faults>>

\* saveLocalState, line 58, first half: the temporary file is created or
\* truncated.
SaveOpen(p) ==
  /\ pc[p] = "save_tmp"
  /\ \E ok \in BOOLEAN :
       /\ stateFile' = IF ok THEN writeFileTmp(stateFile, FileGarbled) ELSE stateFile
       /\ pc' = [pc EXCEPT ![p] = IF ok THEN "save_write" ELSE "save_err"]
  /\ UNCHANGED <<lock, servers, policies, arg, base, st, lease, faults>>

\* saveLocalState, line 58, second half: the document is written out; a failed
\* write leaves the truncated file.
SaveWrite(p) ==
  /\ pc[p] = "save_write"
  /\ \E ok \in BOOLEAN :
       /\ stateFile' = IF ok THEN writeFileTmp(stateFile, FileDoc(st[p])) ELSE stateFile
       /\ pc' = [pc EXCEPT ![p] = IF ok THEN "save_rename" ELSE "save_err"]
  /\ UNCHANGED <<lock, servers, policies, arg, base, st, lease, faults>>

\* saveLocalState, line 61.
SaveRename(p) ==
  /\ pc[p] = "save_rename"
  /\ \E ok \in BOOLEAN :
       /\ stateFile' = IF ok THEN renameTmp(stateFile) ELSE stateFile
       /\ pc' = [pc EXCEPT ![p] = IF ok THEN "save_done" ELSE "save_err"]
  /\ UNCHANGED <<lock, servers, policies, arg, base, st, lease, faults>>

\* The invocation is killed at any point of the save; the kernel drops its flock.
SaveCrash(p) ==
  /\ pc[p] \in {"save_tmp", "save_write", "save_rename"}
  /\ pc' = [pc EXCEPT ![p] = "idle"]
  /\ lock' = 0
  /\ UNCHANGED <<stateFile, servers, policies, arg, base, st, lease, faults>>

\* The operation returns and the lock is released.
StoreEnd(p) ==
  /\ pc[p] \in {"load_err", "save_done", "save_err"}
  /\ Leave(p, "idle")
  /\ UNCHANGED <<stateFile, servers, policies, faults>>

NextStore ==
  \/ StoreLoad(1)
  \/ StoreEdit(1)
  \/ SaveOpen(1)
  \/ SaveWrite(1)
  \/ SaveRename(1)
  \/ SaveCrash(1)
  \/ StoreEnd(1)

SpecStore == InitStore /\ [][NextStore]_vars

\* C12: every step of a save, and a crash at any point of it, leaves state.json
\* with the content it had or with the complete document being saved.
C12_CanonicalNeverHalfWritten ==
  [][\/ Canonical(stateFile') = Canonical(stateFile)
     \/ Canonical(stateFile') = FileDoc(st[1])]_vars

\* The invocation was killed while it wrote the temporary file: state.json
\* still holds the complete document that was loaded, not the one being saved.
C12_CrashedWhileWriting ==
  /\ pc[1] = "idle"
  /\ lock = 0
  /\ stateFile.tmp = FileGarbled
  /\ Canonical(stateFile) = FileDoc(base[1])
  /\ st[1] # base[1]

\* C13: a load of a missing file, and of a file json.Unmarshal rejects,
\* returns no error and the default state (version 1, unmanaged, ports 80 and
\* 443, no apps); nothing the rejected file holds is in the returned state.
C13_RejectedFileLoadsDefault ==
  [][(pc[1] = "idle" /\ pc'[1] # "idle"
        /\ stateFile.kind \in {"missing", "garbled", "mistyped"}) =>
       (pc'[1] = "loaded" /\ st'[1] = DefaultState)]_vars

\* C14: a load that returned no error did not read a document of another
\* schema version than 1.
C14_OtherVersionIsAnError ==
  \A p \in Procs :
    (pc[p] = "loaded" /\ stateFile.kind = "doc") => stateFile.doc.version = CurrentVersion

\* C15: the document a save puts in place loads back to the apps, the source
\* and the listener ports of the state that was saved, and that loaded state
\* saved again loads to itself.
C15_SavedStateLoadsBack ==
  [][(pc[1] = "save_rename" /\ pc'[1] = "save_done") =>
       LET saved == st[1]
           loaded == loadLocalState(stateFile')
       IN /\ loaded.apps = saved.apps
          /\ loaded.caddySource = saved.caddySource
          /\ loaded.httpPort = saved.httpPort
          /\ loaded.httpsPort = saved.httpsPort
          /\ loadLocalState(saveLocalState(stateFile', loaded, TRUE)) = loaded]_vars

(* --------------------------- input validation ------------------------- *)

\* Command-line strings are sequences of characters.
MaxNameLen == 3

MaxHostLen == 3

LowerLetters ==
  {"a", "b", "c", "d", "e", "f", "g", "h", "i", "j", "k", "l", "m",
   "n", "o", "p", "q", "r", "s", "t", "u", "v", "w", "x", "y", "z"}

Digits == {"0", "1", "2", "3", "4", "5", "6", "7", "8", "9"}

\* (r >= 'a' && r <= 'z') || (r >= '0' && r <= '9') || r == '-'
isNameRune(r) == r \in LowerLetters \cup Digits \cup {"-"}

\* The string a sequence of characters spells.
RECURSIVE Join(_)
Join(chars) == IF chars = <<>> THEN "" ELSE chars[1] \o Join(Tail(chars))

\* strings.ToLower over the characters of the inputs.
ToLower(chars) ==
  [i \in 1..Len(chars) |->
     IF chars[i] = "A" THEN "a" ELSE IF chars[i] = "T" THEN "t" ELSE chars[i]]

\* strings.TrimSpace
TrimSpace(chars) ==
  LET inked == {i \in 1..Len(chars) : chars[i] # " "}
  IN IF inked = {} THEN <<>>
     ELSE SubSeq(chars, SetMin(inked), CHOOSE i \in inked : \A j \in inked : j <= i)

\* strings.Contains
Contains(chars, sub) ==
  \E i \in 1..(Len(chars) - Len(sub) + 1) : SubSeq(chars, i, i + Len(sub) - 1) = sub

\* strings.Split(host, "."): the labels, each a sequence of characters.
RECURSIVE Split(_)
Split(chars) ==
  LET dots == {i \in 1..Len(chars) : chars[i] = "."}
  IN IF dots = {} THEN <<chars>>
     ELSE <<SubSeq(chars, 1, SetMin(dots) - 1)>>
            \o Split(SubSeq(chars, SetMin(dots) + 1, Len(chars)))

\* validateName: "" when the name is accepted, else the reason.
validateName(name) ==
  IF name = <<>> THEN "empty"
  ELSE IF \E i \in 1..Len(name) : ~isNameRune(name[i]) THEN "runes"
  ELSE IF name[1] = "-" \/ name[Len(name)] = "-" THEN "dash"
  ELSE ""

\* normalizeHost: [err, host]; the host is the tuple of its labels, as
\* DefaultHost gives it.
normalizeHost(raw) ==
  LET host == TrimSpace(ToLower(raw))
      labels == Split(host)
      rejected(why) == [err |-> why, host |-> <<>>]
  IN IF host = <<>> THEN rejected("empty")
     ELSE IF Contains(host, <<":", "/", "/">>) THEN rejected("scheme")
     ELSE IF Contains(host, <<"/">>) THEN rejected("path")
     ELSE IF Contains(host, <<":">>) THEN rejected("port")
     ELSE IF host[1] = "." \/ host[Len(host)] = "." \/ Contains(host, <<".", ".">>)
     THEN rejected("format")
     ELSE IF \E i \in 1..Len(labels) : labels[i] = <<>> THEN rejected("format")
     ELSE IF \E i \in 1..Len(labels) :
               labels[i][1] = "-" \/ labels[i][Len(labels[i])] = "-"
     THEN rejected("dash")
     ELSE IF \E i \in 1..Len(labels) : \E j \in 1..Len(labels[i]) : ~isNameRune(labels[i][j])
     THEN rejected("runes")
     ELSE [err |-> "", host |-> [i \in 1..Len(labels) |-> Join(labels[i])]]

\* hostForApp(name, customHost): the default host when no --host was given.
hostForApp(name, customHost) ==
  IF customHost = <<>> THEN [err |-> "", host |-> DefaultHost(name)]
  ELSE normalizeHost(customHost)

NameRunes == {"a", "-", "A"}

HostRunes == {"a", "-", ".", "A", " ", "/", ":"}

\* A run request: --name, --host ("" when the flag is absent) and a command.
InitRun ==
  /\ stateFile = FileMissing
  /\ lock = 0
  /\ servers = SingleServer(<<>>)
  /\ policies \in InitPolicies
  /\ pc = [p \in AllProcs |-> "idle"]
  /\ \E name \in SeqsUpTo(NameRunes, MaxNameLen), host \in SeqsUpTo(HostRunes, MaxHostLen) :
       arg = [p \in AllProcs |->
                IF p = 1 THEN [name |-> "", pid |-> 1, rawName |-> name, rawHost |-> host]
                ELSE NoArg]
  /\ base = [p \in AllProcs |-> DefaultState]
  /\ st = [p \in AllProcs |-> DefaultState]
  /\ lease = [p \in AllProcs |-> NoLease]
  /\ faults = 0

\* Faulty variant: the host is looked at only after the proxy was ensured.
runAppEntryProbingFirst(name, host) ==
  IF name = <<>> \/ validateName(name) # "" THEN "run_rejected" ELSE "ensure"

\* The root command and runApp down to line 156: where the request goes.
runAppEntry(name, host) ==
  IF name = <<>> THEN "run_rejected"
  ELSE IF validateName(name) # "" THEN "run_rejected"
  ELSE IF hostForApp(Join(name), host).err # "" THEN "run_rejected"
  ELSE "ensure"

\* `devwrap --name <name> [--host <host>] -- cmd` up to the validation.
RunApp(p) ==
  /\ pc[p] = "idle"
  /\ arg[p].pid = p
  /\ pc' = [pc EXCEPT ![p] = runAppEntry(arg[p].rawName, arg[p].rawHost)]
  /\ arg' = [arg EXCEPT ![p] =
               IF runAppEntry(arg[p].rawName, arg[p].rawHost) = "ensure"
               THEN [arg[p] EXCEPT !.name = Join(arg[p].rawName)]
               ELSE arg[p]]
  /\ UNCHANGED <<stateFile, lock, servers, policies, base, st, lease, faults>>

\* ensureCaddyOrDaemon: the admin API is probed and, when it is down, the
\* proxy is started by a process of its own and the probe repeated.
EnsureCaddy(p) ==
  /\ pc[p] = "ensure"
  /\ \E reachable \in BOOLEAN :
       pc' = [pc EXCEPT ![p] = IF reachable THEN "acquire" ELSE "run_err"]
  /\ UNCHANGED <<stateFile, lock, servers, policies, arg, base, st, lease, faults>>

\* runApp returns the error.
RunReturn(p) ==
  /\ pc[p] \in {"run_rejected", "run_err"}
  /\ pc' = [pc EXCEPT ![p] = "idle"]
  /\ arg' = [arg EXCEPT ![p] = NoArg]
  /\ UNCHANGED <<stateFile, lock, servers, policies, base, st, lease, faults>>

NextRun ==
  \E p \in Procs :
    \/ RunApp(p)
    \/ EnsureCaddy(p)
    \/ RunReturn(p)

SpecRun == InitRun /\ [][NextRun]_vars

\* The request of an invocation does not pass the validation of runApp.
BadRequest(p) ==
  \/ validateName(arg[p].rawName) # ""
  \/ hostForApp(Join(arg[p].rawName), arg[p].rawHost).err # ""

\* C17: a run request whose name or custom host fails validation is rejected
\* by its first step, which takes no lock and changes neither the state file
\* nor the control plane, and the invocation never reaches the health probe,
\* the daemon start or the lease request.
C17_RejectedBeforeAnyStep ==
  /\ [][\A p \in Procs :
          (pc[p] = "idle" /\ pc'[p] # "idle" /\ BadRequest(p)) =>
            /\ pc'[p] = "run_rejected"
            /\ lock' = lock /\ stateFile' = stateFile
            /\ servers' = servers /\ policies' = policies /\ st' = st]_vars
  /\ [](\A p \in Procs :
          pc[p] \in {"ensure", "acquire", "run_err"} =>
            /\ validateName(arg[p].rawName) = ""
            /\ hostForApp(arg[p].name, arg[p].rawHost).err = "")

\* A request with a good name and a host holding a port was rejected.
C17_BadHostRejected ==
  /\ pc[1] = "run_rejected"
  /\ validateName(arg[1].rawName) = ""
  /\ normalizeHost(arg[1].rawHost).err = "port"
  /\ lock = 0

\* C16: a granted lease of a name that had no entry records the host the
\* request resolved (the normalized --host value, or <name>.localhost without
\* one), in the persisted entry and in the lease, and the owned route of the
\* name on every target server matches on that host.
C16_CustomHostRecorded ==
  \A p \in Procs :
    (pc[p] = "acq_ok" /\ arg[p].name \notin DOMAIN base[p].apps) =>
      LET name == arg[p].name
          host == hostForApp(name, arg[p].rawHost).host
      IN /\ Persisted.apps[name].host = host
         /\ lease[p].host = host
         /\ \A s \in TargetServers(servers) :
              \E i \in 1..Len(servers[s].routes) :
                /\ servers[s].routes[i].kind = "map"
                /\ servers[s].routes[i].id = OwnedRouteID(name)
                /\ servers[s].routes[i].host = host

(* ------------------------- Remove and Status -------------------------- *)

\* The invocation `p` took a step of its own.
Stepped(p) == pc'[p] # pc[p]

\* C18: after a successful Remove the name is in no persisted entry and in no
\* owned route of a target server, whoever owned it, and every other entry is
\* as it was loaded; a Remove of a name without entry writes neither the
\* control plane nor the state file.
C18_RemoveDeletesOnlyTheName ==
  /\ [](pc[Cli] = "rm_ok" =>
          LET name == arg[Cli].name
          IN /\ name \in DOMAIN base[Cli].apps
             /\ DOMAIN Persisted.apps = DOMAIN base[Cli].apps \ {name}
             /\ \A m \in DOMAIN Persisted.apps : Persisted.apps[m] = base[Cli].apps[m]
             /\ \A s \in TargetServers(servers) :
                  \A i \in 1..Len(servers[s].routes) :
                    HasOwnedMarker(servers[s].routes[i]) =>
                      servers[s].routes[i].id # OwnedRouteID(name))
  /\ [][(pc[Cli] = "idle" /\ pc'[Cli] \in {"rm_cs", "rm_noop"}) =>
          /\ (pc'[Cli] = "rm_noop") <=> (arg'[Cli].name \notin DOMAIN Persisted.apps)
          /\ FilesUnchanged]_vars
  /\ [][(pc[Cli] = "rm_noop" /\ Stepped(Cli)) => FilesUnchanged]_vars

\* The lease of a running invocation was removed by another one; the other
\* name is still persisted.
C18_RemovedLiveLease ==
  /\ pc[Cli] = "rm_ok"
  /\ \E p \in Procs :
       /\ pc[p] = "child"
       /\ arg[p].name = arg[Cli].name
       /\ base[Cli].apps[arg[Cli].name].pid = p
  /\ DOMAIN Persisted.apps = Names \ {arg[Cli].name}

MaxPolicies == 3

\* A policy-list element that is no JSON object.
RawPolicy == [raw |-> TRUE]

\* Live policies: foreign ones with and without subjects, a non-object, and a
\* policy under the id of devwrap.
LivePolicies ==
  {ForeignPolicy, [id |-> "acme", subjects |-> <<<<"site", "test">>>>, issuer |-> "acme"],
   RawPolicy, Policy(devwrapInternalTLSPolicyID, <<<<"*", "test">>>>)}

\* Hosts of tracked apps: the default host, hosts under another domain in
\* either case, a host of one label.
TrackedHosts(n) == {DefaultHost(n), <<n, "test">>, <<n, "Test">>, <<"localhost">>}

TLSAppSets ==
  UNION {{apps \in [D -> UNION {TrackedHosts(n) : n \in Names}] :
            \A n \in D : apps[n] \in TrackedHosts(n)} : D \in SUBSET Names}

InitTLS ==
  /\ stateFile = FileMissing
  /\ lock = 0
  /\ servers = SingleServer(<<>>)
  /\ policies \in {[found |-> FALSE, list |-> <<>>]}
                    \cup {[found |-> TRUE, list |-> l] : l \in SeqsUpTo(LivePolicies, MaxPolicies)}
  /\ pc = [p \in AllProcs |-> "idle"]
  /\ arg = [p \in AllProcs |-> NoArg]
  /\ base = [p \in AllProcs |-> DefaultState]
  /\ \E hosts \in TLSAppSets :
       st = [p \in AllProcs |->
               [DefaultState EXCEPT !.apps =
                  [n \in DOMAIN hosts |-> [TrackedApp(n, PortMin) EXCEPT !.host = hosts[n]]]]]
  /\ lease = [p \in AllProcs |-> NoLease]
  /\ faults = 0

\* applyRoutesViaAdmin, lines 65-69: syncDevwrapInternalTLSPolicy(apps).
SyncTLS ==
  /\ pc[Cli] = "idle"
  /\ \E tlsFetch \in {"ok", "err"}, reply \in PutReplies :
       LET r == syncDevwrapInternalTLSPolicy(policies, st[Cli].apps, tlsFetch, reply)
       IN /\ policies' = r.policies
          /\ pc' = [pc EXCEPT ![Cli] =
                     IF r.err THEN (IF r.wrote THEN "tls_err" ELSE "tls_fetch_err")
                     ELSE IF r.wrote THEN "tls_ok" ELSE "tls_skip"]
  /\ UNCHANGED <<stateFile, lock, servers, arg, base, st, lease, faults>>

NextTLS == SyncTLS

SpecTLS == InitTLS /\ [][NextTLS]_vars

\* C20: a successful sync with at least one tracked app and an existing policy
\* list leaves a list whose first element is the one policy under the id of
\* devwrap, with the internal issuer and the generalized hosts of the apps as
\* subjects, duplicate-free in ascending order, followed by every element of
\* the old list that is not under that id, unchanged and in the old order.
C20_OwnPolicyFirst ==
  [][(pc[Cli] = "idle" /\ pc'[Cli] = "tls_ok" /\ policies.found
        /\ DOMAIN st[Cli].apps # {}) =>
       LET apps == st[Cli].apps
           IsOwn(p) == "id" \in DOMAIN p /\ p.id = devwrapInternalTLSPolicyID
           NotOwn(p) == ~IsOwn(p)
           foreign == SelectSeq(policies.list, NotOwn)
           list == policies'.list
           subjects == list[1].subjects
       IN /\ policies'.found
          /\ Len(list) = 1 + Len(foreign)
          /\ IsOwn(list[1])
          /\ list[1].issuer = "internal"
          /\ {subjects[i] : i \in 1..Len(subjects)}
               = {tlsSubjectForHost(apps[n].host) : n \in DOMAIN apps}
          /\ \A i, j \in 1..Len(subjects) :
               i < j => RankIn(SubjectOrder, subjects[i]) < RankIn(SubjectOrder, subjects[j])
          /\ SubSeq(list, 2, Len(list)) = foreign
          /\ Cardinality({i \in 1..Len(list) : IsOwn(list[i])}) = 1]_vars

\* A sync replaced the policy of devwrap in a list of three: two apps under
\* hosts that generalize to the same subject, the foreign policies kept behind.
C20_TwoHostsOneSubject ==
  /\ pc[Cli] = "tls_ok"
  /\ DOMAIN st[Cli].apps = Names
  /\ st[Cli].apps["api"].host = <<"api", "test">>
  /\ st[Cli].apps["web"].host = <<"web", "Test">>
  /\ policies.list = <<Policy(devwrapInternalTLSPolicyID, <<<<"*", "test">>>>),
                       RawPolicy, ForeignPolicy>>

\* C21 (as stated): with no tracked app the sync sends no PATCH, DELETE or PUT,
\* whether or not a policy list exists.
C21_NoWriteWithoutApps ==
  [][(pc[Cli] = "idle" /\ Stepped(Cli) /\ DOMAIN st[Cli].apps = {}) =>
       pc'[Cli] \in {"tls_skip", "tls_fetch_err"}]_vars

\* C21 (as amended): with no tracked app the sync sends no write when the
\* control plane has no policy list, and the list stays absent; when a list
\* exists and was fetched the sync writes it, and a successful write leaves
\* the elements that are not under the id of devwrap, in their order.
C21_NoWriteWithoutAppsAndList ==
  [][(pc[Cli] = "idle" /\ Stepped(Cli) /\ DOMAIN st[Cli].apps = {}) =>
       LET NotOwn(p) == "id" \notin DOMAIN p \/ p.id # devwrapInternalTLSPolicyID
       IN /\ ~policies.found =>
               (pc'[Cli] \in {"tls_skip", "tls_fetch_err"} /\ policies' = policies)
          /\ policies.found => pc'[Cli] \in {"tls_ok", "tls_err", "tls_fetch_err"}
          /\ (policies.found /\ pc'[Cli] = "tls_ok") =>
               policies' = [found |-> TRUE, list |-> SelectSeq(policies.list, NotOwn)]]_vars

\* A sync without apps and without policy list returned without a write.
C21_SkippedWithoutList ==
  /\ pc[Cli] = "tls_skip"
  /\ DOMAIN st[Cli].apps = {}
  /\ ~policies.found

(* ----------------------- the topology resolver on its own ------------- *)

\* Listen lists of a live server: none, one address, two addresses.
ListenLists ==
  {<<>>, << <<"", 80>> >>, << <<"", 443>> >>, << <<"", 8080>> >>,
   << <<"", 8443>>, <<"localhost", 443>> >>}

\* Live configurations: every set of the server names, every server with a
\* listen list and with or without TLS connection policies, no routes yet.
LiveServerMaps ==
  UNION {[D -> [listen : ListenLists, tls : BOOLEAN, routes : {<<>>}]] :
           D \in SUBSET {ServerOrder[i] : i \in 1..Len(ServerOrder)}}

InitTopo ==
  /\ stateFile = FileMissing
  /\ lock = 0
  /\ servers \in LiveServerMaps
  /\ policies = [found |-> FALSE, list |-> <<>>]
  /\ pc = [p \in AllProcs |-> "idle"]
  /\ arg = [p \in AllProcs |-> NoArg]
  /\ base = [p \in AllProcs |-> DefaultState]
  /\ st = [p \in AllProcs |->
             [DefaultState EXCEPT !.apps = [n \in {"api"} |-> TrackedApp("api", PortMin)]]]
  /\ lease = [p \in AllProcs |-> NoLease]
  /\ faults = 0

\* inspectExternalCaddy and what localStatusFromFiles (lines 91-104) reports
\* of it: source, root and listener ports.
InspectCaddy ==
  /\ pc[Cli] = "idle"
  /\ \E fetch \in {"ok", "err"} :
       LET info == inspectExternalCaddy(servers, fetch)
       IN /\ pc' = [pc EXCEPT ![Cli] = IF info.err THEN "inspect_err" ELSE "inspected"]
          /\ st' = [st EXCEPT ![Cli] =
                      IF info.err THEN st[Cli]
                      ELSE [st[Cli] EXCEPT
                              !.caddySource = IF info.managed THEN "managed" ELSE "unmanaged",
                              !.httpPort = info.httpPort, !.httpsPort = info.httpsPort,
                              !.root = (info.httpPort = DefaultHTTPPort
                                          /\ info.httpsPort = DefaultHTTPSPort)]]
  /\ UNCHANGED <<stateFile, lock, servers, policies, arg, base, lease, faults>>

\* applyRoutesViaAdmin against an admin API that accepts every call: the
\* route of the app is written to the servers the resolver selected.
ApplyToSelected ==
  /\ pc[Cli] = "inspected"
  /\ LET r == applyRoutesViaAdmin(st[Cli].apps, servers, policies, HealthyScript)
     IN /\ servers' = r.servers
        /\ policies' = r.policies
        /\ pc' = [pc EXCEPT ![Cli] = IF r.err THEN "apply_err" ELSE "applied"]
  /\ UNCHANGED <<stateFile, lock, arg, base, st, lease, faults>>

NextTopo ==
  \/ InspectCaddy
  \/ ApplyToSelected

SpecTopo == InitTopo /\ [][NextTopo]_vars

ReservedNames == {"devwrap-http", "devwrap-https"}

\* The servers a route was written to.
WrittenServers == {n \in DOMAIN servers : Len(servers[n].routes) > 0}

\* C22 (as stated): with devwrap-http or devwrap-https in the live
\* configuration the instance is reported as self-managed and routes are
\* written to reserved servers only.
C22_AnyReservedIsAuthoritative ==
  (pc[Cli] \in {"inspected", "applied"} /\ ReservedNames \cap DOMAIN servers # {}) =>
    /\ st[Cli].caddySource = "managed"
    /\ WrittenServers \subseteq ReservedNames

\* C22 (as amended): with devwrap-http in the live configuration the instance
\* is reported as self-managed, the HTTP target is devwrap-http, the HTTPS
\* target is devwrap-https when it exists and none otherwise, and no other
\* server is written to, whatever other servers exist.
C22_ReservedHTTPIsAuthoritative ==
  (pc[Cli] \in {"inspected", "applied"} /\ "devwrap-http" \in DOMAIN servers) =>
    LET topo == parseExternalServers(servers)
    IN /\ st[Cli].caddySource = "managed"
       /\ topo.httpName = "devwrap-http"
       /\ topo.httpsName = IF "devwrap-https" \in DOMAIN servers THEN "devwrap-https" ELSE ""
       /\ pc[Cli] = "applied" => WrittenServers = ReservedNames \cap DOMAIN servers

\* Routes were written to both reserved servers and to neither of the two
\* other servers, one of which serves TLS on 443.
C22_ReservedAmongOthers ==
  /\ pc[Cli] = "applied"
  /\ DOMAIN servers = {"devwrap-http", "devwrap-https", "srv0", "srv1"}
  /\ servers["srv0"].tls /\ hasListenPort(servers["srv0"], 443)
  /\ WrittenServers = ReservedNames

\* The servers with TLS connection policies or a listen address on port 443.
ServesTLS ==
  {n \in DOMAIN servers :
     servers[n].tls \/ \E i \in 1..Len(servers[n].listen) : servers[n].listen[i][2] = 443}

\* x is the first name of S in ascending name order.
IsFirstOf(x, S) ==
  x \in S /\ \A y \in S : RankIn(ServerOrder, x) <= RankIn(ServerOrder, y)

\* C23: with no reserved server in the live configuration the HTTPS target is
\* the first server, in ascending name order, that has TLS connection policies
\* or listens on 443, the HTTP target is the first of the other servers, and
\* the routes are written to exactly the targets; the result is a function of
\* the set of servers alone.
C23_FirstServersByName ==
  (pc[Cli] \in {"inspected", "applied"} /\ ReservedNames \cap DOMAIN servers = {}) =>
    LET topo == parseExternalServers(servers)
        plain == DOMAIN servers \ ServesTLS
    IN /\ ~topo.err
       /\ st[Cli].caddySource = "unmanaged"
       /\ ServesTLS # {} =>
            /\ IsFirstOf(topo.httpsName, ServesTLS)
            /\ st[Cli].httpsPort = PortOr(firstListenPort(servers[topo.httpsName]), 443)
       /\ plain # {} =>
            /\ IsFirstOf(topo.httpName, plain)
            /\ st[Cli].httpPort = PortOr(firstListenPort(servers[topo.httpName]), 80)
       /\ pc[Cli] = "applied" => WrittenServers = {topo.httpName, topo.httpsName}

\* Of two servers the second alone serves TLS, by a second listen address on
\* 443; the routes went to both.
C23_SecondServerServesTLS ==
  /\ pc[Cli] = "applied"
  /\ DOMAIN servers = {"srv0", "srv1"}
  /\ ~servers["srv0"].tls /\ ~servers["srv1"].tls
  /\ ServesTLS = {"srv1"}
  /\ st[Cli].httpsPort = 8443
  /\ WrittenServers = {"srv0", "srv1"}

(* ------------------------- the daemon wrapper ------------------------- *)

\* The invocation that runs `devwrap proxy daemon`.
Daemon == 1

\* The invocation whose child keeps running while the proxy comes and goes.
Runner == 2

\* The listener pairs of chooseProxyPorts.
RootPair == <<DefaultHTTPPort, DefaultHTTPSPort>>

UserPair == <<8080, 8443>>

FallbackPair == <<9080, 9443>>

ProxyPorts == {RootPair[1], RootPair[2], UserPair[1], UserPair[2],
               FallbackPair[1], FallbackPair[2]}

\* Faulty variant: only the HTTP port of a pair is probed.
portsAvailableHTTPOnly(busy, httpPort, httpsPort) == httpPort \notin busy

\* portsAvailable: net.Listen succeeds on both ports (busy: the ports on which
\* it fails).
portsAvailable(busy, httpPort, httpsPort) ==
  httpPort \notin busy /\ httpsPort \notin busy

\* chooseProxyPorts: [err, httpPort, httpsPort, root]
chooseProxyPorts(isRoot, busy) ==
  LET pick(pair, root) == [err |-> FALSE, httpPort |-> pair[1], httpsPort |-> pair[2],
                           root |-> root]
      none == [err |-> TRUE, httpPort |-> 0, httpsPort |-> 0, root |-> FALSE]
  IN IF isRoot
     THEN IF portsAvailable(busy, RootPair[1], RootPair[2]) THEN pick(RootPair, TRUE)
          ELSE IF portsAvailable(busy, UserPair[1], UserPair[2]) THEN pick(UserPair, FALSE)
          ELSE none
     ELSE IF portsAvailable(busy, UserPair[1], UserPair[2]) THEN pick(UserPair, FALSE)
          ELSE IF portsAvailable(busy, FallbackPair[1], FallbackPair[2])
               THEN pick(FallbackPair, FALSE)
          ELSE none

\* No admin API answers on 127.0.0.1:2019.
NoServers == [n \in {} |-> 0]

NoPolicies == [found |-> FALSE, list |-> <<>>]

\* checkSystemCaddyReachable: adminHealthy gets an answer from GET /config/.
checkSystemCaddyReachable(srv) == DOMAIN srv # {}

\* The configuration startEmbeddedCaddy loads: the two reserved servers with
\* empty route lists.
EmbeddedServers(httpPort, httpsPort) ==
  [n \in {"devwrap-http", "devwrap-https"} |->
     IF n = "devwrap-http" THEN Server("", httpPort, FALSE, <<>>)
     ELSE Server("", httpsPort, TRUE, <<>>)]

\* Its TLS automation policies: one policy with the internal issuer, no @id.
EmbeddedPolicies == [found |-> TRUE, list |-> <<ForeignPolicy>>]

\* The runtime directory of the daemon specifications: state.json together
\* with daemon.pid (0: no such file).
RuntimeDir(f, pid) ==
  [k \in DOMAIN f \cup {"pidFile"} |-> IF k = "pidFile" THEN pid ELSE f[k]]

\* What the daemon was started with and how it fared: euid 0 or not, the
\* ports other programs listen on, the signal waiting in `quit`, whether
\* this run saved the managed state, and why the run ended ("" while it runs
\* or before any run).
DaemonArg(isRoot, busy) ==
  [isRoot |-> isRoot, busy |-> busy, quit |-> FALSE, marked |-> FALSE, exit |-> ""]

InitDaemon ==
  /\ \E withApp \in BOOLEAN :
       stateFile = RuntimeDir(
         IF withApp
         THEN FileDoc([DefaultState EXCEPT
                         !.apps = [n \in {"api"} |->
                                     [name |-> "api", host |-> DefaultHost("api"),
                                      port |-> PortMin, pid |-> Runner]]])
         ELSE FileMissing, 0)
  /\ lock = 0
  /\ \/ servers = NoServers /\ policies = NoPolicies
     \/ servers = SplitServers(<<ForeignRoute>>) /\ policies = NoPolicies
  /\ pc = [p \in AllProcs |-> IF p = Runner THEN "child" ELSE "idle"]
  /\ \E isRoot \in BOOLEAN, busy \in SUBSET ProxyPorts :
       arg = [p \in AllProcs |->
                IF p = Daemon THEN DaemonArg(isRoot, busy)
                ELSE IF p = Runner THEN [name |-> "api", pid |-> Runner]
                ELSE NoArg]
  /\ base = [p \in AllProcs |-> DefaultState]
  /\ st = [p \in AllProcs |-> DefaultState]
  /\ lease = [p \in AllProcs |-> NoLease]
  /\ faults = 0

\* The daemon leaves startDaemon with the given reason.
DaemonReturns(reason) ==
  /\ pc' = [pc EXCEPT ![Daemon] = "d_exit"]
  /\ arg' = [arg EXCEPT ![Daemon].exit = reason]

\* startDaemon, lines 43-54: the health probe, the port choice, the embedded
\* Caddy.
StartDaemon ==
  /\ pc[Daemon] = "idle"
  /\ LET ports == chooseProxyPorts(arg[Daemon].isRoot, arg[Daemon].busy)
         fresh == [arg EXCEPT ![Daemon].quit = FALSE, ![Daemon].marked = FALSE,
                              ![Daemon].exit = ""]
     IN IF checkSystemCaddyReachable(servers)
        THEN /\ pc' = [pc EXCEPT ![Daemon] = "d_exit"]
             /\ arg' = [fresh EXCEPT ![Daemon].exit = "already_running"]
             /\ UNCHANGED <<servers, policies, faults>>
        ELSE IF ports.err
        THEN /\ pc' = [pc EXCEPT ![Daemon] = "d_exit"]
             /\ arg' = [fresh EXCEPT ![Daemon].exit = "no_ports"]
             /\ UNCHANGED <<servers, policies, faults>>
        ELSE \E loaded \in BOOLEAN :
               /\ faults + (IF loaded THEN 0 ELSE 1) <= MaxFaults
               /\ faults' = faults + (IF loaded THEN 0 ELSE 1)
               /\ pc' = [pc EXCEPT ![Daemon] = IF loaded THEN "d_started" ELSE "d_exit"]
               /\ arg' = [fresh EXCEPT ![Daemon].exit = IF loaded THEN "" ELSE "caddy_failed"]
               /\ servers' = IF loaded THEN EmbeddedServers(ports.httpPort, ports.httpsPort)
                             ELSE servers
               /\ policies' = IF loaded THEN EmbeddedPolicies ELSE policies
  /\ UNCHANGED <<stateFile, lock, base, st, lease>>

\* The state startDaemon saves (lines 60-69).
managedState(p, loaded, ports) ==
  [loaded EXCEPT !.apps = EvictDead(p, loaded.apps),
                 !.version = CurrentVersion, !.caddySource = "managed",
                 !.httpPort = ports.httpPort, !.httpsPort = ports.httpsPort,
                 !.root = (ports.httpPort = DefaultHTTPPort
                             /\ ports.httpsPort = DefaultHTTPSPort)]

\* startDaemon, lines 55-69: the lock is taken, the state loaded and edited.
DaemonMark ==
  /\ pc[Daemon] = "d_started"
  /\ Enter(Daemon, "d_cs",
           managedState(Daemon, loadLocalState(stateFile),
                        chooseProxyPorts(arg[Daemon].isRoot, arg[Daemon].busy)))
  /\ UNCHANGED <<stateFile, servers, policies, arg, lease, faults>>

\* startDaemon, line 73: the routes of the live leases are applied.
daemonApply(apps, srv, pol, script) == applyRoutesViaAdmin(apps, srv, pol, script)

\* startDaemon, lines 70-79: the save, then the routes; the lock is released
\* when the body returns.
DaemonCommit ==
  /\ pc[Daemon] = "d_cs"
  /\ \E script \in Scripts, saveOk \in BOOLEAN :
       LET r == daemonApply(st[Daemon].apps, servers, policies, script)
           failed == ~saveOk \/ r.err
       IN /\ saveOk \/ script = HealthyScript
          /\ Faulty(script, saveOk)
          /\ stateFile' = IF saveOk
                          THEN RuntimeDir(saveLocalState(stateFile, st[Daemon], TRUE),
                                          stateFile.pidFile)
                          ELSE stateFile
          /\ servers' = IF saveOk THEN r.servers ELSE servers
          /\ policies' = IF saveOk THEN r.policies ELSE policies
          /\ pc' = [pc EXCEPT ![Daemon] = IF failed THEN "d_exit" ELSE "d_pid"]
          /\ arg' = [arg EXCEPT ![Daemon].marked = saveOk,
                                ![Daemon].exit = IF failed THEN "startup_failed" ELSE ""]
  /\ lock' = 0
  /\ base' = [base EXCEPT ![Daemon] = DefaultState]
  /\ st' = [st EXCEPT ![Daemon] = DefaultState]
  /\ UNCHANGED lease

\* startDaemon, lines 81-88: daemon.pid is written.
WritePidFile ==
  /\ pc[Daemon] = "d_pid"
  /\ \E ok \in BOOLEAN :
       /\ faults + (IF ok THEN 0 ELSE 1) <= MaxFaults
       /\ faults' = faults + (IF ok THEN 0 ELSE 1)
       /\ stateFile' = IF ok THEN RuntimeDir(stateFile, Daemon) ELSE stateFile
       /\ pc' = [pc EXCEPT ![Daemon] = IF ok THEN "d_wait" ELSE "d_exit"]
       /\ arg' = [arg EXCEPT ![Daemon].exit = IF ok THEN "" ELSE "startup_failed"]
  /\ UNCHANGED <<lock, servers, policies, base, st, lease>>

\* os.Interrupt or SIGTERM reaches the waiting daemon (lines 90-93).
Interrupt ==
  /\ pc[Daemon] = "d_wait"
  /\ ~arg[Daemon].quit
  /\ arg' = [arg EXCEPT ![Daemon].quit = TRUE]
  /\ UNCHANGED <<stateFile, lock, servers, policies, pc, base, st, lease, faults>>

\* stopSpawnedCaddy, lines 98-100: caddy.Stop().
StopEmbedded ==
  /\ pc[Daemon] = "d_wait"
  /\ arg[Daemon].quit
  /\ \E ok \in BOOLEAN :
       /\ faults + (IF ok THEN 0 ELSE 1) <= MaxFaults
       /\ faults' = faults + (IF ok THEN 0 ELSE 1)
       /\ servers' = IF ok THEN NoServers ELSE servers
       /\ policies' = IF ok THEN NoPolicies ELSE policies
       /\ pc' = [pc EXCEPT ![Daemon] = IF ok THEN "d_stopping" ELSE "d_exit"]
       /\ arg' = [arg EXCEPT ![Daemon].exit = IF ok THEN "" ELSE "stop_failed"]
  /\ UNCHANGED <<stateFile, lock, base, st, lease>>

\* stopSpawnedCaddy, lines 101-106: the lock is taken, the state loaded and
\* its source set back.
RevertMark ==
  /\ pc[Daemon] = "d_stopping"
  /\ Enter(Daemon, "d_revert",
           [loadLocalState(stateFile) EXCEPT !.caddySource = "unmanaged"])
  /\ UNCHANGED <<stateFile, servers, policies, arg, lease, faults>>

\* stopSpawnedCaddy, line 107, and the return of startDaemon.
RevertCommit ==
  /\ pc[Daemon] = "d_revert"
  /\ \E saveOk \in BOOLEAN :
       /\ faults + (IF saveOk THEN 0 ELSE 1) <= MaxFaults
       /\ faults' = faults + (IF saveOk THEN 0 ELSE 1)
       /\ stateFile' = RuntimeDir(saveLocalState(stateFile, st[Daemon], saveOk),
                                  stateFile.pidFile)
       /\ DaemonReturns(IF saveOk THEN "stopped" ELSE "stop_failed")
  /\ lock' = 0
  /\ base' = [base EXCEPT ![Daemon] = DefaultState]
  /\ st' = [st EXCEPT ![Daemon] = DefaultState]
  /\ UNCHANGED <<servers, policies, lease>>

\* The daemon process ends: the deferred os.Remove(pid) of line 88 runs when
\* startDaemon got past it, and the embedded Caddy ends with its process.
DaemonExit ==
  /\ pc[Daemon] = "d_exit"
  /\ pc' = [pc EXCEPT ![Daemon] = "idle"]
  /\ stateFile' = IF arg[Daemon].exit \in {"stopped", "stop_failed"}
                  THEN RuntimeDir(stateFile, 0) ELSE stateFile
  /\ servers' = IF "devwrap-http" \in DOMAIN servers THEN NoServers ELSE servers
  /\ policies' = IF "devwrap-http" \in DOMAIN servers THEN NoPolicies ELSE policies
  /\ UNCHANGED <<lock, arg, base, st, lease, faults>>

\* Somebody starts a Caddy of their own while no admin API is listening.
ExternalCaddyStarts ==
  /\ ~checkSystemCaddyReachable(servers)
  /\ servers' = SplitServers(<<ForeignRoute>>)
  /\ policies' = NoPolicies
  /\ UNCHANGED <<stateFile, lock, pc, arg, base, st, lease, faults>>

(* ----------------------------- proxy stop ----------------------------- *)

\* The pid of a process that has ended: no later process gets it again.
DeadPid == NumProcs + 2

\* Faulty variant: POST /stop is sent to whatever admin API answers.
runProxyStopAnyCaddy(srv, fetch, pid, alive) ==
  IF checkSystemCaddyReachable(srv) THEN "post"
  ELSE IF pid = 0 \/ ~alive THEN "not_running"
  ELSE "signal"

\* runProxyStop: what the command does, given the live servers, the answer
\* to the fetch of inspectExternalCaddy, the pid read from daemon.pid (0: no
\* file) and whether kill(pid, 0) succeeds.
runProxyStop(srv, fetch, pid, alive) ==
  LET info == inspectExternalCaddy(srv, fetch)
  IN IF checkSystemCaddyReachable(srv) /\ ~info.err /\ info.managed THEN "post"
     ELSE IF pid = 0 \/ ~alive
          THEN IF checkSystemCaddyReachable(srv) THEN "using_unmanaged" ELSE "not_running"
     ELSE "signal"

\* `devwrap proxy stop`. An accepted POST /stop makes Caddy stop and end its
\* process from inside the admin handler: the daemon is gone without
\* returning from startDaemon, and the flock it held is dropped.
ProxyStop ==
  /\ pc[Cli] = "idle"
  /\ \E fetch \in {"ok", "err"}, reply \in {"ok", "rej", "err"} :
       LET pid == stateFile.pidFile
           path == runProxyStop(servers, fetch, pid, processAlive(Cli, pid))
           posted == path = "post" /\ reply = "ok"
           cost == IF fetch = "err" \/ (path = "post" /\ reply # "ok") THEN 1 ELSE 0
       IN /\ path = "post" \/ reply = "ok"
          /\ faults + cost <= MaxFaults
          /\ faults' = faults + cost
          /\ pc' = [pc EXCEPT
                      ![Cli] = IF posted THEN "stop_posted"
                               ELSE IF path = "post" THEN "stop_err"
                               ELSE IF path = "signal" THEN "stop_signaled"
                               ELSE IF path = "using_unmanaged" THEN "stop_unmanaged"
                               ELSE "stop_not_running",
                      ![Daemon] = IF posted THEN "idle" ELSE pc[Daemon]]
          /\ arg' = IF posted THEN [arg EXCEPT ![Daemon].exit = "admin_stop"]
                    ELSE IF path = "signal" THEN [arg EXCEPT ![pid].quit = TRUE]
                    ELSE arg
          /\ servers' = IF posted THEN NoServers ELSE servers
          /\ policies' = IF posted THEN NoPolicies ELSE policies
          /\ stateFile' = IF posted /\ pid = Daemon THEN RuntimeDir(stateFile, DeadPid)
                          ELSE stateFile
          /\ lock' = IF posted /\ lock = Daemon THEN 0 ELSE lock
          /\ base' = IF posted THEN [base EXCEPT ![Daemon] = DefaultState] ELSE base
          /\ st' = IF posted THEN [st EXCEPT ![Daemon] = DefaultState] ELSE st
  /\ UNCHANGED lease

\* runProxyStop returns.
ProxyStopEnd ==
  /\ pc[Cli] \in {"stop_posted", "stop_err", "stop_signaled", "stop_unmanaged",
                  "stop_not_running"}
  /\ pc' = [pc EXCEPT ![Cli] = "idle"]
  /\ UNCHANGED <<stateFile, lock, servers, policies, arg, base, st, lease, faults>>

NextDaemon ==
  \/ StartDaemon
  \/ DaemonMark
  \/ DaemonCommit
  \/ WritePidFile
  \/ Interrupt
  \/ StopEmbedded
  \/ RevertMark
  \/ RevertCommit
  \/ DaemonExit
  \/ ExternalCaddyStarts
  \/ ProxyStop
  \/ ProxyStopEnd

SpecDaemon == InitDaemon /\ [][NextDaemon]_vars

\* The listener ports of the embedded Caddy.
ListenerPair ==
  <<firstListenPort(servers["devwrap-http"]), firstListenPort(servers["devwrap-https"])>>

PairFree(pair) == pair[1] \notin arg[Daemon].busy /\ pair[2] \notin arg[Daemon].busy

C25_EndedDaemonIsUnmanaged ==
  (pc[Daemon] = "idle" /\ arg[Daemon].marked) => Persisted.caddySource = "unmanaged"

\* A step of the running daemon that leaves the admin API in place.
DaemonStep ==
  /\ pc[Daemon] \notin {"idle", "d_exit"}
  /\ pc'[Daemon] \notin {"idle", pc[Daemon]}
  /\ DOMAIN servers' = DOMAIN servers

\* C26: no step of the daemon, from its start to its exit, changes a route
\* list or the TLS automation policies of the admin API.
C26_DaemonWritesNoRoutes ==
  [][DaemonStep =>
       /\ \A n \in DOMAIN servers : servers'[n].routes = servers[n].routes
       /\ policies' = policies]_vars

\* A step in which `devwrap proxy stop` runs.
StopStep == pc[Cli] = "idle" /\ pc'[Cli] \in {"stop_posted", "stop_err", "stop_signaled",
                                              "stop_unmanaged", "stop_not_running"}

\* An admin API answers and its servers do not carry the reserved name.
ExternalCaddy == checkSystemCaddyReachable(servers) /\ "devwrap-http" \notin DOMAIN servers

\* POST /stop goes out only to an admin API whose servers carry the reserved
\* name; a signal goes only to the live process daemon.pid names.
StopsOnlyItsOwn ==
  /\ pc'[Cli] \in {"stop_posted", "stop_err"} => "devwrap-http" \in DOMAIN servers
  /\ \A p \in {Daemon} :
       (pc'[Cli] = "stop_signaled" \/ arg'[p].quit # arg[p].quit) =>
          /\ stateFile.pidFile = p
          /\ pc[p] # "idle"
          /\ arg'[p].quit
  /\ pc'[Cli] # "stop_posted" => pc'[Daemon] = pc[Daemon]

Untrusted(l) == [l EXCEPT !.trusted = FALSE]

\* C28: every step of requestLeaseDirect's lines 149-162 leaves the state
\* file, the routes and policies, the outcome and the lease, its trust flag
\* apart, as the same admin answers and save leave them when the CA
\* certificate is fetched and verifies; without a certificate the flag is
\* false.
C28_TrustChangesOnlyTheFlag ==
  [][\A p \in Procs :
       (pc[p] = "acq_cs" /\ pc'[p] # "acq_cs") =>
         \E script \in Scripts, saveOk \in BOOLEAN :
           \E good \in {acquireResult(p, script, saveOk, "trusted")} :
              /\ \A ca \in CAReplies :
                   \E o \in {acquireResult(p, script, saveOk, ca)} :
                      /\ [o EXCEPT !.lease = Untrusted(o.lease)]
                           = [good EXCEPT !.lease = Untrusted(good.lease)]
                      /\ o.lease.trusted = (o.ok /\ ca = "trusted")
              /\ (pc'[p] = "acq_ok") = good.ok
              /\ stateFile' = good.stateFile
              /\ servers' = good.servers
              /\ policies' = good.policies
              /\ Untrusted(lease'[p]) = Untrusted(good.lease)]_vars

\* C28 witness: a lease was granted and persisted while the certificate was
\* not trusted.
C28_GrantedUntrusted ==
  \E p \in Procs :
    /\ pc[p] = "acq_ok"
    /\ lease[p].name = arg[p].name
    /\ ~lease[p].trusted
    /\ arg[p].name \in DOMAIN Persisted.apps

(* ------------------- commands without a usable Caddy ------------------ *)

\* The commands next to a Caddy with an HTTP server, or next to none: nothing
\* answers on the admin address, or what answers lists no HTTP server.
\* state.json is missing or tracks api for a process that is gone.
InitPassive ==
  /\ stateFile \in {FileMissing,
                    FileDoc([DefaultState EXCEPT
                               !.apps = [n \in {"api"} |->
                                           [name |-> "api", host |-> DefaultHost("api"),
                                            port |-> PortMin, pid |-> DeadPid]]])}
  /\ lock = 0
  /\ \/ servers \in {SingleServer(r) : r \in InitRouteLists} /\ policies \in InitPolicies
     \/ servers = NoServers /\ policies = NoPolicies
  /\ pc = [p \in AllProcs |-> "idle"]
  /\ arg = [p \in AllProcs |-> NoArg]
  /\ base = [p \in AllProcs |-> DefaultState]
  /\ st = [p \in AllProcs |-> DefaultState]
  /\ lease = [p \in AllProcs |-> NoLease]
  /\ faults = 0

\* runProxyStatus, lines 125-131, and runList, lines 312-318: the health
\* probe gets no answer; "proxy is not running" or the empty list is printed
\* and nil returned.
StatusNotRunning(p) ==
  /\ p = Cli
  /\ pc[p] = "idle"
  /\ pc' = [pc EXCEPT ![p] = "st_down"]
  /\ UNCHANGED <<stateFile, lock, servers, policies, arg, base, st, lease, faults>>

\* runRemove, lines 340-342: the health probe gets no answer; the error
\* "proxy is not running" is returned.
RemoveNotRunning(p, n) ==
  /\ p = Cli
  /\ pc[p] = "idle"
  /\ pc' = [pc EXCEPT ![p] = "rm_down"]
  /\ arg' = [arg EXCEPT ![p] = [name |-> n, pid |-> 0]]
  /\ UNCHANGED <<stateFile, lock, servers, policies, base, st, lease, faults>>

\* Either command returns.
NotRunningEnd(p) ==
  /\ pc[p] \in {"st_down", "rm_down"}
  /\ pc' = [pc EXCEPT ![p] = "idle"]
  /\ arg' = [arg EXCEPT ![p] = NoArg]
  /\ UNCHANGED <<stateFile, lock, servers, policies, base, st, lease, faults>>

\* Acquire, Remove and the passive commands, each with the branch its
\* health probe opens.
NextPassive ==
  \/ \E p \in Procs :
       \/ \E n \in Names : Acquire(p, n)
       \/ AcquireCommit(p)
       \/ AcquireFails(p)
       \/ ChildStarts(p)
       \/ Crash(p)
  \/ \E n \in Names : Remove(Cli, n)
  \/ RemoveCommit(Cli)
  \/ RemoveEnd(Cli)
  \/ \E n \in Names : RemoveNotRunning(Cli, n)
  \/ Status(Cli)
  \/ StatusCommit(Cli)
  \/ StatusEnd(Cli)
  \/ StatusNotRunning(Cli)
  \/ NotRunningEnd(Cli)

SpecPassive == InitPassive /\ [][NextPassive]_vars

\* C29: with no admin API, or one that lists no HTTP server, `proxy status`
\* and `ls` end with "not running" or the empty list, never with an error,
\* and leave state.json alone, while Acquire and Remove end with an error.
C29_PassivePathsReportNotRunning ==
  [][servers = NoServers =>
       /\ (pc[Cli] = "idle" /\ pc'[Cli] \in {"st_down", "st_err", "st_cs", "st_noop"}) =>
            /\ pc'[Cli] = "st_down"
            /\ stateFile' = stateFile
       /\ \A p \in Procs : (pc[p] = "acq_cs" /\ pc'[p] # "acq_cs") => pc'[p] = "acq_err"
       /\ (pc[Cli] = "idle" /\ pc'[Cli] \in {"rm_down", "rm_cs", "rm_noop"}) =>
            pc'[Cli] \in {"rm_down", "rm_cs"}
       /\ (pc[Cli] = "rm_cs" /\ pc'[Cli] # "rm_cs") => pc'[Cli] = "rm_err"]_vars

(* ----------------------- one route write on its own ------------------- *)

\* Every combination of answers to the PATCH, the DELETE and the PUT.
AllReplies ==
  [patch : {"ok", "rej", "err"}, delete : {"ok", "rej", "err"}, put : {"ok", "rej", "err"}]

\* The write about to be made: the answers the admin API will give, the
\* merged list to be written, and the requests issued so far.
WriteArg(reply, payload) == [reply |-> reply, payload |-> payload, sent |-> <<>>]

InitWrite ==
  /\ stateFile = FileMissing
  /\ lock = 0
  /\ servers \in {SingleServer(r) : r \in LiveRouteLists}
  /\ policies \in InitPolicies
  /\ pc = [p \in AllProcs |-> "idle"]
  /\ base = [p \in AllProcs |-> DefaultState]
  /\ \E apps \in TrackedAppSets :
       /\ st = [p \in AllProcs |-> [DefaultState EXCEPT !.apps = apps]]
       /\ \E reply \in AllReplies :
            arg = [p \in AllProcs |->
                     IF p = Cli
                     THEN WriteArg(reply, mergeExternalRoutes(servers["srv0"],
                                                              makeDevwrapRoutes(apps)))
                     ELSE NoArg]
  /\ lease = [p \in AllProcs |-> NoLease]
  /\ faults = 0

\* applyRoutesViaAdmin, lines 50-52: the merged list is written to the HTTP
\* server.
WriteRoutes ==
  /\ pc[Cli] = "idle"
  /\ \E w \in {putExternalRoutes(servers, "srv0", arg[Cli].payload, arg[Cli].reply)} :
       /\ servers' = w.servers
       /\ arg' = [arg EXCEPT ![Cli].sent = w.sent]
       /\ pc' = [pc EXCEPT ![Cli] = IF w.err THEN "write_err" ELSE "written"]
  /\ UNCHANGED <<stateFile, lock, policies, base, st, lease, faults>>

NextWrite == WriteRoutes

SpecWrite == InitWrite /\ [][NextWrite]_vars

\* The requests of a finished write: one PATCH of the merged list, and after
\* a PATCH answered with a status >= 300 one DELETE and one PUT of the same
\* list.
OnePatchOneFallback ==
  LET w == arg[Cli]
      patch == Request("PATCH", w.payload)
  IN /\ w.sent \in {<<patch>>,
                    <<patch, Request("DELETE", <<>>), Request("PUT", w.payload)>>}
     /\ Len(w.sent) = 3 <=> w.reply.patch = "rej"

\* C30 as claimed: one PATCH, the DELETE and PUT only after a PATCH answered
\* non-2xx, nothing further; the write fails only when both the PATCH and
\* the PUT were rejected and succeeds when either was accepted.
C30_FailsOnlyWhenBothRejected ==
  pc[Cli] \in {"written", "write_err"} =>
    /\ OnePatchOneFallback
    /\ pc[Cli] = "write_err" => arg[Cli].reply.patch = "rej" /\ arg[Cli].reply.put = "rej"
    /\ (arg[Cli].reply.patch = "ok"
          \/ (Len(arg[Cli].sent) = 3 /\ arg[Cli].reply.put = "ok")) => pc[Cli] = "written"

\* C30: one PATCH, the DELETE and PUT only after a PATCH answered non-2xx,
\* nothing further; the write fails exactly when the PATCH got no answer, or
\* was answered non-2xx and the PUT was not accepted, and succeeds exactly
\* when the PATCH, or the PUT sent after its rejection, was accepted.
C30_FailsWhenNeitherAccepted ==
  pc[Cli] \in {"written", "write_err"} =>
    /\ OnePatchOneFallback
    /\ pc[Cli] = "write_err" <=>
         \/ arg[Cli].reply.patch = "err"
         \/ arg[Cli].reply.patch = "rej" /\ arg[Cli].reply.put # "ok"
    /\ pc[Cli] = "written" => servers["srv0"].routes = arg[Cli].payload

\* C30 witness: the PATCH was rejected, the list deleted and recreated.
C30_RecreatedAfterRejectedPatch ==
  /\ pc[Cli] = "written"
  /\ arg[Cli].reply.patch = "rej"
  /\ Len(arg[Cli].sent) = 3
  /\ arg[Cli].payload # <<>>
  /\ servers["srv0"].routes = arg[Cli].payload

(* --------------------- a name changing its owner ---------------------- *)

\* The name the first run invocation holds when the second one asks for it.
HandoverName == "api"

\* Invocation 1 runs its child with the lease of HandoverName persisted and
\* routed; invocation 2 has not started.
InitHandover ==
  /\ \E held \in {[n \in {HandoverName} |-> TrackedApp(n, PortMin)]} :
       /\ stateFile = [kind |-> "doc", doc |-> [DefaultState EXCEPT !.apps = held]]
       /\ servers \in {SplitServers(<<ForeignRoute>> \o makeDevwrapRoutes(held)),
                       SingleServer(<<ForeignRoute>> \o makeDevwrapRoutes(held))}
  /\ lock = 0
  /\ policies \in InitPolicies
  /\ pc = [p \in AllProcs |-> IF p = 1 THEN "child" ELSE "idle"]
  /\ arg = [p \in AllProcs |-> IF p = 1 THEN [name |-> HandoverName, pid |-> 1] ELSE NoArg]
  /\ base = [p \in AllProcs |-> DefaultState]
  /\ st = [p \in AllProcs |-> DefaultState]
  /\ lease = [p \in AllProcs |-> NoLease]
  /\ faults = 0

\* Invocation 2 acquires while invocation 1's child exits and 1 releases.
NextHandover ==
  \/ \E n \in Names : Acquire(2, n)
  \/ AcquireCommit(2)
  \/ AcquireFails(2)
  \/ ChildStarts(2)
  \/ ChildStartFails(2)
  \/ Release(1)
  \/ ReleaseCommit(1)
  \/ ReleaseEnd(1)

SpecHandover == InitHandover /\ [][NextHandover]_vars

\* The persisted lease of name n is p's and every target server routes it.
LeaseHeldBy(n, p) ==
  /\ n \in DOMAIN Persisted.apps
  /\ Persisted.apps[n].pid = p
  /\ \A s \in TargetServers(servers) :
       \E i \in 1..Len(servers[s].routes) :
         servers[s].routes[i] = DevwrapRoute(Persisted.apps[n])

\* C31: invocation 1 holds the lease of a name, invocation 2 acquires the name
\* and 1 releases, in any order of the two critical sections: from the moment
\* 2's Acquire has completed, and so once both have completed, the persisted
\* lease of the name is owned by 2 and routed; the release of the old owner
\* never deletes it.
C31_NewOwnerKeepsLease ==
  (pc[2] = "child" /\ arg[2].name = HandoverName) => LeaseHeldBy(HandoverName, 2)

\* The old owner's release came after the new acquisition and found the lease
\* owned by 2: it is inside its critical section with nothing to delete.
C31_StaleReleaseFoundNewOwner ==
  /\ pc[2] = "child" /\ arg[2].name = HandoverName
  /\ pc[1] = "rel_noop" /\ lock = 1
  /\ Persisted.apps[HandoverName].pid = 2

(* ------------------- leases of owners that still run ------------------ *)

\* A run invocation with its euid: `sudo devwrap --name n -- cmd` or not.
RunArg(n, p, isRoot) == [name |-> n, pid |-> p, isRoot |-> isRoot]

\* Invocation 1 runs its child, started under sudo or not, with its lease
\* persisted and routed; state.json is a complete document or one with a
\* value of the wrong type in a field other than the app map.
InitOwners ==
  /\ \E held \in {[n \in {HandoverName} |-> TrackedApp(n, PortMin)]} :
       /\ \E d \in {[DefaultState EXCEPT !.apps = held]} :
            stateFile \in {FileDoc(d), [kind |-> "mistyped", doc |-> d, bad |-> "httpPort"]}
       /\ servers = SingleServer(<<ForeignRoute>> \o makeDevwrapRoutes(held))
  /\ lock = 0
  /\ policies \in InitPolicies
  /\ pc = [p \in AllProcs |-> IF p = 1 THEN "child" ELSE "idle"]
  /\ \E isRoot \in BOOLEAN :
       arg = [p \in AllProcs |-> IF p = 1 THEN RunArg(HandoverName, 1, isRoot) ELSE NoArg]
  /\ base = [p \in AllProcs |-> DefaultState]
  /\ st = [p \in AllProcs |-> DefaultState]
  /\ lease = [p \in AllProcs |-> NoLease]
  /\ faults = 0

\* Invocation 2 and the commands without a lease act next to the owner.
NextOwners ==
  \/ \E n \in Names : Acquire(2, n)
  \/ AcquireCommit(2)
  \/ AcquireFails(2)
  \/ ChildStarts(2)
  \/ ChildStartFails(2)
  \/ \E p \in Procs : Release(p) \/ ReleaseCommit(p) \/ ReleaseEnd(p)
  \/ \E n \in Names : Remove(Cli, n)
  \/ RemoveCommit(Cli)
  \/ RemoveEnd(Cli)
  \/ Status(Cli)
  \/ StatusCommit(Cli)
  \/ StatusEnd(Cli)

SpecOwners == InitOwners /\ [][NextOwners]_vars

\* The process with this pid runs.
Runs(pid) == pid \in AllProcs /\ pc[pid] # "idle"

\* The persisted leases the step deletes.
DeletedLeases == DOMAIN Persisted.apps \ DOMAIN Persisted'.apps

\* C32: a step that deletes the persisted lease of an owner that runs is the
\* write of that owner's Release or of a Remove of that name; Acquire and
\* Status delete only leases whose recorded pid does not run.
C32_LiveLeasesKept ==
  [][\A n \in DeletedLeases :
       Runs(Persisted.apps[n].pid) =>
         \/ \E p \in Procs : /\ pc[p] = "rel_cs" /\ pc'[p] # "rel_cs"
                             /\ arg[p].name = n /\ Persisted.apps[n].pid = p
         \/ pc[Cli] = "rm_cs" /\ pc'[Cli] # "rm_cs" /\ arg[Cli].name = n]_vars

(* ------------------ leases next to a self-managed proxy --------------- *)

\* No Caddy runs and nothing is tracked; the daemon is about to be started,
\* as root or not, with every listener port free.
InitManaged ==
  /\ stateFile = RuntimeDir(FileMissing, 0)
  /\ lock = 0
  /\ servers = NoServers
  /\ policies = NoPolicies
  /\ pc = [p \in AllProcs |-> "idle"]
  /\ \E isRoot \in BOOLEAN :
       arg = [p \in AllProcs |-> IF p = Daemon THEN DaemonArg(isRoot, {}) ELSE NoArg]
  /\ base = [p \in AllProcs |-> DefaultState]
  /\ st = [p \in AllProcs |-> DefaultState]
  /\ lease = [p \in AllProcs |-> NoLease]
  /\ faults = 0

\* The daemon from start to end, with a run invocation and the commands
\* without a lease acting on the proxy it brought up.
NextManaged ==
  \/ StartDaemon
  \/ DaemonMark
  \/ DaemonCommit
  \/ WritePidFile
  \/ Interrupt
  \/ StopEmbedded
  \/ RevertMark
  \/ RevertCommit
  \/ DaemonExit
  \/ \E n \in Names : Acquire(Runner, n)
  \/ AcquireCommit(Runner)
  \/ AcquireFails(Runner)
  \/ ChildStarts(Runner)
  \/ Release(Runner)
  \/ ReleaseCommit(Runner)
  \/ ReleaseEnd(Runner)
  \/ \E n \in Names : Remove(Cli, n)
  \/ RemoveCommit(Cli)
  \/ RemoveEnd(Cli)
  \/ Status(Cli)
  \/ StatusCommit(Cli)
  \/ StatusEnd(Cli)

SpecManaged == InitManaged /\ [][NextManaged]_vars

\* The daemon saved the managed state and has not begun its teardown.
ManagedProxyRuns == pc[Daemon] \in {"d_pid", "d_wait"} /\ arg[Daemon].marked

\* C33: while the self-managed proxy runs, from the daemon's save of the
\* managed state until its teardown begins, the persisted source is
\* "managed", whatever Acquire, Release, Remove or Status another invocation
\* performs.
C33_SourceStaysManaged == ManagedProxyRuns => Persisted.caddySource = "managed"

(* ---------------------- when the daemon is engaged -------------------- *)

\* adminHealthy: GET /config/ is answered with a status below 500 (`answered`:
\* a running Caddy replies in time and so).
adminHealthy(srv, answered) == checkSystemCaddyReachable(srv) /\ answered

\* A request that may need the proxy: `devwrap --name n -- cmd` ("run"),
\* `devwrap proxy trust` ("trust") or `devwrap proxy start` ("start"), with
\* its --privileged flag, its euid and the result of its latest health probe
\* ("" before the first one).
ProxyRequest(kind, name, p, privileged, isRoot) ==
  [kind |-> kind, name |-> name, pid |-> p, privileged |-> privileged,
   isRoot |-> isRoot, probe |-> ""]

\* The daemon process was created by cmd.Start() and has not yet entered
\* startDaemon.
DaemonSpawned == arg[Daemon].exit = "spawned"

\* Nothing runs or an external Caddy does; invocation 2 is a run or a trust
\* request, invocation 3 a `proxy start`.
InitEnsure ==
  /\ stateFile = RuntimeDir(FileMissing, 0)
  /\ lock = 0
  /\ \/ servers = NoServers /\ policies = NoPolicies
     \/ servers = SplitServers(<<ForeignRoute>>) /\ policies = NoPolicies
  /\ pc = [p \in AllProcs |-> "idle"]
  /\ \E kind \in {"run", "trust"}, privileged \in BOOLEAN, isRoot \in BOOLEAN :
       arg = [p \in AllProcs |->
                IF p = Daemon THEN DaemonArg(FALSE, {})
                ELSE IF p = Runner
                THEN ProxyRequest(kind, IF kind = "run" THEN "api" ELSE "", p, privileged, FALSE)
                ELSE ProxyRequest("start", "", p, privileged, isRoot)]
  /\ base = [p \in AllProcs |-> DefaultState]
  /\ st = [p \in AllProcs |-> DefaultState]
  /\ lease = [p \in AllProcs |-> NoLease]
  /\ faults = 0

\* One health probe of invocation p: its answer, within the fault budget.
Probe(p, answered) ==
  LET cost == IF checkSystemCaddyReachable(servers) /\ ~answered THEN 1 ELSE 0
  IN /\ checkSystemCaddyReachable(servers) \/ answered
     /\ faults + cost <= MaxFaults
     /\ faults' = faults + cost

\* ensureCaddyOrDaemon, lines 248-251: the proxy is started only when the
\* probe failed.
ensureCaddyOrDaemon(healthy) == IF healthy THEN "ensured" ELSE "start"

EnsureCaddyOrDaemon(p) ==
  /\ pc[p] = "idle"
  /\ "kind" \in DOMAIN arg[p] /\ arg[p].kind \in {"run", "trust"}
  /\ \E answered \in BOOLEAN :
       /\ Probe(p, answered)
       /\ pc' = [pc EXCEPT ![p] = ensureCaddyOrDaemon(adminHealthy(servers, answered))]
       /\ arg' = [arg EXCEPT ![p].probe =
                    IF adminHealthy(servers, answered) THEN "up" ELSE "down"]
  /\ UNCHANGED <<stateFile, lock, servers, policies, base, st, lease>>

\* checkDaemonReachable as p runs it: [ok, clear] (clear: daemon.pid is
\* removed).
checkDaemonReachable(p, healthy, fetch) ==
  LET pid == stateFile.pidFile
      info == inspectExternalCaddy(servers, fetch)
  IN IF pid = 0 THEN [ok |-> FALSE, clear |-> FALSE]
     ELSE IF ~processAlive(p, pid) THEN [ok |-> FALSE, clear |-> TRUE]
     ELSE IF ~healthy THEN [ok |-> FALSE, clear |-> FALSE]
     ELSE IF info.err THEN [ok |-> FALSE, clear |-> FALSE]
     ELSE IF ~info.managed THEN [ok |-> FALSE, clear |-> TRUE]
     ELSE [ok |-> TRUE, clear |-> FALSE]

\* runProxyStart, lines 18-28: the refusal under sudo and the look for a
\* daemon of its own.
RunProxyStart(p) ==
  /\ \/ pc[p] = "start"
     \/ pc[p] = "idle" /\ "kind" \in DOMAIN arg[p] /\ arg[p].kind = "start"
  /\ \E answered \in BOOLEAN, fetch \in {"ok", "err"} :
       \E c \in {checkDaemonReachable(p, adminHealthy(servers, answered), fetch)} :
          LET refused == arg[p].privileged /\ arg[p].isRoot
              cost == IF (checkSystemCaddyReachable(servers) /\ ~answered) \/ fetch = "err"
                      THEN 1 ELSE 0
          IN /\ checkSystemCaddyReachable(servers) \/ answered
             /\ refused => (answered /\ fetch = "ok")
             /\ faults + (IF refused THEN 0 ELSE cost) <= MaxFaults
             /\ faults' = faults + (IF refused THEN 0 ELSE cost)
             /\ pc' = [pc EXCEPT ![p] = IF refused THEN "start_err"
                                        ELSE IF c.ok THEN "start_ok"
                                        ELSE "start_probe"]
             /\ stateFile' = IF ~refused /\ c.clear THEN RuntimeDir(stateFile, 0)
                             ELSE stateFile
  /\ UNCHANGED <<lock, servers, policies, arg, base, st, lease>>

\* Faulty variant: the daemon is spawned whatever the probe says.
runProxyStartSpawningAnyway(healthy) == "spawn"

\* runProxyStart, lines 29-36: with the admin API answering, the Caddy that
\* runs is used and nothing is spawned.
runProxyStartProbe(healthy) == IF healthy THEN "start_ok" ELSE "spawn"

StartProbe(p) ==
  /\ pc[p] = "start_probe"
  /\ \E answered \in BOOLEAN :
       /\ Probe(p, answered)
       /\ pc' = [pc EXCEPT ![p] = runProxyStartProbe(adminHealthy(servers, answered))]
       /\ arg' = [arg EXCEPT ![p].probe =
                    IF adminHealthy(servers, answered) THEN "up" ELSE "down"]
  /\ UNCHANGED <<stateFile, lock, servers, policies, base, st, lease>>

\* runProxyStart, lines 38-66: cmd.Start() of `devwrap proxy daemon`, through
\* sudo when privileged; with no daemon process at hand the start fails.
SpawnDaemon(p) ==
  /\ pc[p] = "spawn"
  /\ IF pc[Daemon] = "idle" /\ ~DaemonSpawned
     THEN \E busy \in {{}, ProxyPorts} :
            /\ arg' = [arg EXCEPT ![Daemon] =
                         [DaemonArg(arg[p].privileged \/ arg[p].isRoot, busy)
                            EXCEPT !.exit = "spawned"]]
            /\ pc' = [pc EXCEPT ![p] = "wait"]
     ELSE /\ arg' = arg
          /\ pc' = [pc EXCEPT ![p] = "start_err"]
  /\ UNCHANGED <<stateFile, lock, servers, policies, base, st, lease, faults>>

\* waitForDaemon: the probe is repeated for up to five seconds.
WaitForDaemon(p) ==
  /\ pc[p] = "wait"
  /\ \E ready \in BOOLEAN :
       /\ ready => checkSystemCaddyReachable(servers)
       /\ pc' = [pc EXCEPT ![p] = IF ready THEN "start_ok" ELSE "start_err"]
  /\ UNCHANGED <<stateFile, lock, servers, policies, arg, base, st, lease, faults>>

\* runProxyStart returned: `proxy start` ends; ensureCaddyOrDaemon returns
\* its error or probes once more (lines 251-257).
StartReturns(p) ==
  /\ pc[p] \in {"start_ok", "start_err"}
  /\ IF arg[p].kind = "start" \/ pc[p] = "start_err"
     THEN /\ pc' = [pc EXCEPT ![p] = "idle"]
          /\ arg' = [arg EXCEPT ![p] = NoArg]
          /\ UNCHANGED faults
     ELSE \E answered \in BOOLEAN :
            /\ Probe(p, answered)
            /\ pc' = [pc EXCEPT ![p] = IF adminHealthy(servers, answered)
                                       THEN "ensured" ELSE "start_err"]
            /\ arg' = [arg EXCEPT ![p].probe =
                         IF adminHealthy(servers, answered) THEN "up" ELSE "down"]
  /\ UNCHANGED <<stateFile, lock, servers, policies, base, st, lease>>

\* runApp, line 162: acquireLease once the proxy is ensured.
AcquireEnsured(p) ==
  /\ pc[p] = "ensured"
  /\ arg[p].kind = "run"
  /\ \E busy \in SUBSET (PortMin..PortMax) :
       LET e == leaseEntry(loadLocalState(stateFile), arg[p].name, p, busy)
       IN Enter(p, IF e.err THEN "acq_err" ELSE "acq_cs", e.state)
  /\ UNCHANGED <<stateFile, servers, policies, arg, lease, faults>>

\* runProxyTrust, lines 170-178: trustLocalCA and the return.
TrustReturns(p) ==
  /\ pc[p] = "ensured"
  /\ arg[p].kind = "trust"
  /\ pc' = [pc EXCEPT ![p] = "idle"]
  /\ arg' = [arg EXCEPT ![p] = NoArg]
  /\ UNCHANGED <<stateFile, lock, servers, policies, base, st, lease, faults>>

\* runProxyDaemon: the spawned process enters startDaemon.
DaemonProcessStarts == DaemonSpawned /\ StartDaemon

NextEnsure ==
  \/ EnsureCaddyOrDaemon(Runner)
  \/ \E p \in {Runner, Cli} :
       \/ RunProxyStart(p)
       \/ StartProbe(p)
       \/ SpawnDaemon(p)
       \/ WaitForDaemon(p)
       \/ StartReturns(p)
  \/ AcquireEnsured(Runner)
  \/ AcquireCommit(Runner)
  \/ AcquireFails(Runner)
  \/ ChildStarts(Runner)
  \/ TrustReturns(Runner)
  \/ DaemonProcessStarts
  \/ DaemonMark
  \/ DaemonCommit
  \/ WritePidFile
  \/ DaemonExit
  \/ ExternalCaddyStarts

SpecEnsure == InitEnsure /\ [][NextEnsure]_vars

\* The step creates the daemon process.
DaemonIsSpawned == ~DaemonSpawned /\ arg'[Daemon].exit = "spawned"

\* The step is the daemon's entry into startDaemon.
DaemonEnters == DaemonSpawned /\ pc[Daemon] = "idle" /\ pc'[Daemon] # "idle"

\* The step is the entry of invocation p into requestLeaseDirect.
AcquireBegins(p) == pc[p] \notin {"acq_cs", "acq_err"} /\ pc'[p] \in {"acq_cs", "acq_err"}

\* C34: the daemon process is created only by a request whose latest health
\* probe failed (a run or trust request after the probe of
\* ensureCaddyOrDaemon and that of runProxyStart, `proxy start` after its
\* own), so a `proxy start` whose probe succeeded spawns nothing; a daemon
\* that finds the admin API reachable starts no Caddy and changes neither the
\* state file nor the configuration; and a lease is requested only by an
\* invocation whose latest health probe succeeded.
C34_DaemonOnlyWhenUnreachable ==
  [][/\ DaemonIsSpawned =>
          \E p \in {Runner, Cli} : /\ pc[p] = "spawn" /\ pc'[p] = "wait"
                                   /\ arg[p].probe = "down"
     /\ \A p \in {Runner, Cli} :
          ("probe" \in DOMAIN arg[p] /\ arg[p].probe = "up" /\ pc'[p] # pc[p])
            => ~DaemonIsSpawned
     /\ (DaemonEnters /\ checkSystemCaddyReachable(servers)) =>
          /\ pc'[Daemon] = "d_exit"
          /\ servers' = servers /\ policies' = policies
          /\ stateFile' = stateFile /\ lock' = lock
     /\ AcquireBegins(Runner) => arg[Runner].probe = "up"]_vars

\* A run request found no Caddy, spawned the daemon and requested its lease
\* from the self-managed proxy.
C34_AcquiredFromSpawnedDaemon ==
  /\ pc[Runner] = "acq_cs"
  /\ reservedPresent(servers)
  /\ arg[Daemon].marked
  /\ pc[Daemon] \in {"d_pid", "d_wait"}

\* An external Caddy came up between the spawn and the daemon's own probe:
\* the daemon left without starting anything.
C34_DaemonFoundCaddyRunning ==
  /\ arg[Daemon].exit = "already_running"
  /\ pc[Daemon] = "d_exit"
  /\ ~reservedPresent(servers)

(* ------------------------- the reported ports ------------------------- *)

\* The server the HTTPS routes go to: the HTTPS target, or the HTTP target
\* where the resolver names none.
HTTPSTarget(topo) == IF topo.httpsName = "" THEN topo.httpName ELSE topo.httpsName

\* C35: the reported HTTP port is the port of the first listen address of the
\* selected HTTP server, the reported HTTPS port that of the selected HTTPS
\* server, 80 and 443 standing in only for a server whose first listen
\* address gives no port; so too when one server is both targets.
C35_ReportedPortsAreListenPorts ==
  pc[Cli] \in {"inspected", "applied"} =>
    LET topo == parseExternalServers(servers)
    IN /\ st[Cli].httpPort =
            PortOr(firstListenPort(servers[topo.httpName]), DefaultHTTPPort)
       /\ st[Cli].httpsPort =
            PortOr(firstListenPort(servers[HTTPSTarget(topo)]), DefaultHTTPSPort)

(* ----------------------- waiting for the state lock -------------------- *)

\* An invocation that called withStateLock and sits in fileLock.Lock()
\* (main.go:116) is at "lock_wait"; arg[p].op is the operation it runs.
Waiting(p) == pc[p] = "lock_wait"

Call(p, op, n, pid) ==
  /\ pc' = [pc EXCEPT ![p] = "lock_wait"]
  /\ arg' = [arg EXCEPT ![p] = [name |-> n, pid |-> pid, op |-> op]]
  /\ UNCHANGED <<stateFile, lock, servers, policies, base, st, lease, faults>>

\* `devwrap --name n -- cmd` reaches requestLeaseDirect's withStateLock.
AcquireCalls(p, n) ==
  /\ p \in Procs
  /\ pc[p] = "idle"
  /\ Call(p, "acquire", n, p)

\* cmd.Wait() returned: release() reaches releaseLeaseDirect's withStateLock.
ReleaseCalls(p) ==
  /\ pc[p] = "child"
  /\ Call(p, "release", arg[p].name, p)

\* `devwrap rm n` reaches removeDirect's withStateLock.
RemoveCalls(p, n) ==
  /\ p = Cli
  /\ pc[p] = "idle"
  /\ Call(p, "remove", n, 0)

\* `devwrap ls` reaches localStatusFromFiles' withStateLock.
StatusCalls(p) ==
  /\ p = Cli
  /\ pc[p] = "idle"
  /\ Call(p, "status", "", 0)

WaitingFor(p, op) == Waiting(p) /\ arg[p].op = op

\* fileLock.Lock() returns in requestLeaseDirect (lines 120-147).
AcquireLocks(p) ==
  /\ WaitingFor(p, "acquire")
  /\ \E busy \in SUBSET (PortMin..PortMax) :
       LET e == leaseEntry(loadLocalState(stateFile), arg[p].name, p, busy)
       IN Enter(p, IF e.err THEN "acq_err" ELSE "acq_cs", e.state)
  /\ UNCHANGED <<stateFile, servers, policies, arg, lease, faults>>

\* fileLock.Lock() returns in releaseLeaseDirect (lines 172-184).
ReleaseLocks(p) ==
  /\ WaitingFor(p, "release")
  /\ releaseLeaseDirect(p, arg[p].name, arg[p].pid)
  /\ UNCHANGED <<stateFile, servers, policies, arg, lease, faults>>

\* fileLock.Lock() returns in removeDirect (lines 194-201).
RemoveLocks(p) ==
  /\ WaitingFor(p, "remove")
  /\ LET loaded == loadLocalState(stateFile)
         n == arg[p].name
     IN IF n \in DOMAIN loaded.apps
        THEN Enter(p, "rm_cs", [loaded EXCEPT !.apps = DeleteApp(loaded.apps, n)])
        ELSE Enter(p, "rm_noop", loaded)
  /\ UNCHANGED <<stateFile, servers, policies, arg, lease, faults>>

\* fileLock.Lock() returns in localStatusFromFiles (lines 66-81).
StatusLocks(p) ==
  /\ WaitingFor(p, "status")
  /\ \E fetch \in {"ok", "err"} :
       LET loaded == loadLocalState(stateFile)
           live == EvictDead(p, loaded.apps)
           cost == IF fetch = "err" THEN 1 ELSE 0
       IN /\ faults + cost <= MaxFaults
          /\ faults' = faults + cost
          /\ IF inspectFails(servers, fetch) THEN Enter(p, "st_err", loaded)
             ELSE IF statusChanged(loaded.apps, live)
                  THEN Enter(p, "st_cs", [loaded EXCEPT !.apps = live])
                  ELSE Enter(p, "st_noop", loaded)
  /\ UNCHANGED <<stateFile, servers, policies, arg, lease>>

\* fileLock.Lock() returns to p.
Locks(p) == AcquireLocks(p) \/ ReleaseLocks(p) \/ RemoveLocks(p) \/ StatusLocks(p)

\* What p does between fileLock.Lock() and the return of its operation: the
\* admin calls (each answers or times out after 4 s, client.go:8), the save,
\* the deferred Unlock.
Proceeds(p) ==
  \/ AcquireCommit(p)
  \/ AcquireFails(p)
  \/ ChildStarts(p)
  \/ ChildStartFails(p)
  \/ ReleaseCommit(p)
  \/ ReleaseEnd(p)
  \/ RemoveCommit(p)
  \/ RemoveEnd(p)
  \/ StatusCommit(p)
  \/ StatusEnd(p)

InitWaiting ==
  /\ stateFile = [kind |-> "missing"]
  /\ lock = 0
  /\ servers \in {SingleServer(r) : r \in InitRouteLists}
  /\ policies \in InitPolicies
  /\ pc = [p \in AllProcs |-> "idle"]
  /\ arg = [p \in AllProcs |-> NoArg]
  /\ base = [p \in AllProcs |-> DefaultState]
  /\ st = [p \in AllProcs |-> DefaultState]
  /\ lease = [p \in AllProcs |-> NoLease]
  /\ faults = 0

\* Every invocation works on the one name; no invocation is killed.
NextWaiting ==
  \E p \in AllProcs :
    \/ AcquireCalls(p, HandoverName)
    \/ AcquireLocks(p)
    \/ AcquireCommit(p)
    \/ AcquireFails(p)
    \/ ChildStarts(p)
    \/ ChildStartFails(p)
    \/ ReleaseCalls(p)
    \/ ReleaseLocks(p)
    \/ ReleaseCommit(p)
    \/ ReleaseEnd(p)
    \/ RemoveCalls(p, HandoverName)
    \/ RemoveLocks(p)
    \/ RemoveCommit(p)
    \/ RemoveEnd(p)
    \/ StatusCalls(p)
    \/ StatusLocks(p)
    \/ StatusCommit(p)
    \/ StatusEnd(p)

\* A step of p inside withStateLock, told by pc alone: the steps that move
\* pc[p] away from a position inside withStateLock are the steps of Proceeds(p)
\* (ProceedsMovesPc), and at every such position Proceeds(p) can step
\* (ProceedsEnabled).
Moves(p) ==
  /\ pc[p] \in InCritical
  /\ \E x \in (InCritical \cup {"idle", "child"}) \ {pc[p]} :
       pc' = [pc EXCEPT ![p] = x]

ProceedsMovesPc == [][\A p \in AllProcs : Proceeds(p) <=> Moves(p)]_vars

ProceedsEnabled == \A p \in AllProcs : pc[p] \in InCritical => ENABLED Proceeds(p)

\* An invocation inside withStateLock keeps running (its calls answer or time
\* out), and fileLock.Lock() is a blocking flock(2): a waiter that finds the
\* lock free again and again gets it.  Nothing makes an invocation begin, and
\* nothing makes a child exit.
FairWaiting ==
  \A p \in AllProcs : WF_pc(Moves(p)) /\ SF_vars(Locks(p))

SpecWaiting == InitWaiting /\ [][NextWaiting]_vars /\ FairWaiting

\* The operation of p has returned and p holds no lock.
Returned(p) == pc[p] \in {"idle", "child"} /\ lock # p

CrashInsideKeepingLock(p) ==
  /\ pc[p] \in InCritical
  /\ pc' = [pc EXCEPT ![p] = "idle"]
  /\ arg' = [arg EXCEPT ![p] = [name |-> "", pid |-> 0, op |-> "killed"]]
  /\ base' = [base EXCEPT ![p] = DefaultState]
  /\ st' = [st EXCEPT ![p] = DefaultState]
  /\ lease' = [lease EXCEPT ![p] = NoLease]
  /\ UNCHANGED <<stateFile, lock, servers, policies, faults>>

\* The invocation is killed (SIGKILL) between fileLock.Lock() and the deferred
\* Unlock: nothing of it runs any more.  The lock is a flock(2) on a descriptor
\* of the lock file (flock.New(path).Lock(), main.go:115-116): it goes with the
\* process, the lock file stays.  All that is kept of the invocation is that it
\* was killed.
CrashInside(p) ==
  /\ pc[p] \in InCritical
  /\ pc' = [pc EXCEPT ![p] = "idle"]
  /\ lock' = IF lock = p THEN 0 ELSE lock
  /\ arg' = [arg EXCEPT ![p] = [name |-> "", pid |-> 0, op |-> "killed"]]
  /\ base' = [base EXCEPT ![p] = DefaultState]
  /\ st' = [st EXCEPT ![p] = DefaultState]
  /\ lease' = [lease EXCEPT ![p] = NoLease]
  /\ UNCHANGED <<stateFile, servers, policies, faults>>

NextKilled ==
  \/ NextWaiting
  \/ \E p \in AllProcs : CrashInside(p)

SpecKilled == InitWaiting /\ [][NextKilled]_vars /\ FairWaiting

\* The last invocation of p was killed inside withStateLock.
Killed(p) == pc[p] = "idle" /\ "op" \in DOMAIN arg[p] /\ arg[p].op = "killed"

OwnedRoutes(server) == SelectSeq(server.routes, HasOwnedMarker)

\* The reserved TLS policy among the automation policies, if there is one.
ReservedPolicy(pol) ==
  LET IsReserved(q) == "id" \in DOMAIN q /\ q.id = devwrapInternalTLSPolicyID
  IN IF pol.found THEN SelectSeq(pol.list, IsReserved) ELSE <<>>

\* requestLeaseDirect returns the error of applyRoutesViaAdmin or of the save.
AcquireStepFails(p) == pc[p] = "acq_cs" /\ pc'[p] = "acq_err"

\* C38: an Acquire that fails leaves the owned routes of every server and the
\* reserved TLS policy as they were before the call.
C38_FailedAcquireKeepsControlPlane ==
  [][\A p \in Procs :
       AcquireStepFails(p) =>
         /\ \A s \in DOMAIN servers : OwnedRoutes(servers'[s]) = OwnedRoutes(servers[s])
         /\ ReservedPolicy(policies') = ReservedPolicy(policies)]_vars

(* ------------------- a name acquired by two invocations ---------------- *)

\* Invocation p acquired name x and waits for its child, before and after the step.
RunsChildOf(p, x) == pc[p] = "child" /\ pc'[p] = "child" /\ arg[p].name = x

\* The step is the write of a `devwrap rm x`.
RemoveOf(x) == pc[Cli] = "rm_cs" /\ arg[Cli].name = x

\* C39: while an invocation that acquired x runs its child and no Remove(x)
\* acts, no step takes the lease of x out of state.json; the release of a second
\* invocation that acquired x in between does not.
C39_LeaseKeptWhileChildRuns ==
  [][\A x \in Names :
       ((\E p \in Procs : RunsChildOf(p, x))
          /\ x \in DOMAIN Persisted.apps
          /\ ~RemoveOf(x))
       => x \in DOMAIN Persisted'.apps]_vars

====
